---- MODULE Spec2Model ----
(***************************************************************************)
(* A model of the kvstore storage engine (kvstore/core), of its            *)
(* shared-exclusive lock (kvstore/utils/rwlock.py) and of its replication  *)
(* to followers (kvstore/replication, kvstore/network).                    *)
(*                                                                         *)
(* Byte strings (keys, values) are sequences of small naturals.  The data  *)
(* file is the sequence of the records appended to it; a record's offset   *)
(* is the sum of the lengths of the records before it, as on disk.  Python *)
(* None is the value None below, which is no byte string.                  *)
(*                                                                         *)
(* Specifications:                                                         *)
(*   SeqSpec      one client calling the store's methods one after the     *)
(*                other; checkpoint cycles, compactions, close/reopen and  *)
(*                kill/reopen happen between two calls.                    *)
(*   Spec         client threads, each critical section (a `with lock:`    *)
(*                block) one step, running against the checkpointer        *)
(*                thread and process kills.                                *)
(*   DelSpec      threads that each call delete once on a populated store. *)
(*   LockSpec     threads using one RWLock, with its condition variables.  *)
(*   LockFairSpec LockSpec with the fairness an OS scheduler gives.        *)
(*   CompactSpec  client threads running against the compaction thread.    *)
(*   ClientSpec   client threads alone, no background thread, no kill.     *)
(*   DirSpec      processes opening and closing one data directory.        *)
(*   ReplSpec     the Replicator's queue and its two workers.              *)
(*   HealthSpec   the ReplicaManager's health marks of the followers.      *)
(*   PipeSpec     a client of the primary, the Replicator's dispatchers    *)
(*                and the followers that handle the REPLICATE messages.    *)
(*   PipeFairSpec PipeSpec with every started call and dispatch finishing. *)
(*   SwapSpec     one client, the checkpoint and compaction threads, and   *)
(*                a kill inside the swap of a compaction.                  *)
(*   FineSpec     client threads, the checkpoint thread and a range reader *)
(*                with wal_lock and the RWLock held step by step.          *)
(*   SameProcSpec store instances opened and closed by one process.        *)
(*   ReplFairSpec ReplSpec with the workers taking their turns.            *)
(*   ShouldSpec   one client, compactions and the should-compact check.    *)
(*   LoopSpec     the background threads' cycles, ending normally or with  *)
(*                an exception.                                            *)
(*   AppendSpec   one client on a data file whose fsync may fail.          *)
(***************************************************************************)
EXTENDS Integers, Sequences, FiniteSets, TLC

----------------------------------------------------------------------------
(* Bounds of the model *)

MaxRecords == 3        \* records in the data file
MaxWal == 3            \* entries in the WAL
MaxBatch == 2          \* pairs in one batch_put
NumThreads == 2        \* client threads of Spec
NumDeleters == 3       \* threads of DelSpec
NumLockThreads == 3    \* threads of LockSpec
MaxCalls == 2          \* calls one client thread of Spec makes
MaxCompactions == 1    \* runs of _compact in CompactSpec
NumProcesses == 2      \* processes of DirSpec that open the data directory
MaxQueue == 2          \* largest queue_size of ReplSpec
MaxOps == 4            \* calls of _enqueue_operation in ReplSpec
MaxRetries == 1        \* max_retries of the Replicator in ReplSpec
NumFollowers == 2      \* followers of HealthSpec
MaxFailures == 3       \* largest max_failures of the ReplicaManager
MaxFineCalls == 1      \* calls one client thread of FineSpec makes
NumInstances == 3      \* store instances one process of SameProcSpec opens

Keys == {<<>>, <<1, 0>>}
Values == {<<>>, <<7>>}
RangeEnds == Keys \cup {<<1>>, <<2>>}

None == <<-1>>         \* Python None; differs from every byte string

----------------------------------------------------------------------------
(* Byte strings *)

\* Python's bytes comparison a <= b (index.py:27)
RECURSIVE bytes_le(_, _)
bytes_le(a, b) ==
    IF a = <<>> THEN TRUE
    ELSE IF b = <<>> THEN FALSE
    ELSE IF Head(a) < Head(b) THEN TRUE
    ELSE IF Head(a) > Head(b) THEN FALSE
    ELSE bytes_le(Tail(a), Tail(b))

----------------------------------------------------------------------------
(* DataFile (core/datafile.py) *)

LenPrefix == 4         \* struct.pack('!I', ...) is 4 bytes

\* len(key_len + key + value_len + value)
record_len(key, value) == LenPrefix + Len(key) + LenPrefix + Len(value)

\* DataFile.size: the byte length of the file
RECURSIVE file_size(_)
file_size(d) ==
    IF d = <<>> THEN 0
    ELSE record_len(Head(d).key, Head(d).value) + file_size(Tail(d))

\* an append that reports offset 0 for every record
append_reports_start(d, key, value) ==
    [file |-> Append(d, [key |-> key, value |-> value]),
     offset |-> 0,
     length |-> record_len(key, value)]

\* an append that writes over the last record of the file
append_over_last(d, key, value) ==
    [file |-> IF d = <<>> THEN <<[key |-> key, value |-> value]>>
              ELSE [d EXCEPT ![Len(d)] = [key |-> key, value |-> value]],
     offset |-> IF d = <<>> THEN 0 ELSE file_size(SubSeq(d, 1, Len(d) - 1)),
     length |-> record_len(key, value)]

\* an append that reports the offset of the record before the one it wrote
append_reports_previous(d, key, value) ==
    [file |-> Append(d, [key |-> key, value |-> value]),
     offset |-> IF d = <<>> THEN 0 ELSE file_size(SubSeq(d, 1, Len(d) - 1)),
     length |-> record_len(key, value)]

\* DataFile.append: the file after the append, and the (offset, length) returned
append(d, key, value) ==
    [file |-> Append(d, [key |-> key, value |-> value]),
     offset |-> file_size(d),
     length |-> record_len(key, value)]

\* What read gives at an offset where no record starts (or on an empty
\* file, where it raises): no key matches it.
NoRecord == [key |-> None, value |-> None]

\* DataFile.read(offset)
datafile_read(d, offset) ==
    LET at == {i \in 1..Len(d) : file_size(SubSeq(d, 1, i - 1)) = offset}
    IN  IF at = {} THEN NoRecord ELSE d[CHOOSE i \in at : TRUE]

----------------------------------------------------------------------------
(* Index (core/index.py): a dict key -> (offset, length) *)

EmptyIndex == [k \in {} |-> <<0, 0>>]

index_put(ix, key, offset, length) ==
    [k \in DOMAIN ix \cup {key} |-> IF k = key THEN <<offset, length>> ELSE ix[k]]

index_get(ix, key) == IF key \in DOMAIN ix THEN ix[key] ELSE None

index_delete(ix, key) == [k \in DOMAIN ix \ {key} |-> ix[k]]

get_range_open_end(ix, start_key, end_key) ==
    [k \in {x \in DOMAIN ix : bytes_le(start_key, x) /\ bytes_le(x, end_key)
                              /\ x # end_key} |-> ix[k]]

get_range(ix, start_key, end_key) ==
    [k \in {x \in DOMAIN ix : bytes_le(start_key, x) /\ bytes_le(x, end_key)}
       |-> ix[k]]

\* The order in which a dict is iterated, as a sequence of its keys.  The
\* model iterates in ascending key order.
RECURSIVE key_order(_)
key_order(S) ==
    IF S = {} THEN <<>>
    ELSE LET m == CHOOSE x \in S : \A y \in S : bytes_le(x, y)
         IN  <<m>> \o key_order(S \ {m})

----------------------------------------------------------------------------
(* WAL (core/wal.py): the sequence of the entries logged since truncate *)

log(w, operation, key, value) ==
    Append(w, [op |-> operation, key |-> key, value |-> value])

\* WAL.replay: the complete entries of the file, in write order
replay(w) == [i \in 1..Len(w) |-> [op |-> w[i].op, key |-> w[i].key, value |-> w[i].value]]

truncate(w) == <<>>

----------------------------------------------------------------------------
(* State *)

VARIABLES
    wal,          \* wal.log on disk
    data,         \* data.db on disk
    index,        \* Index.index, in memory
    index_file,   \* index.db on disk (a missing file loads as the empty dict)
    kv,           \* the plain map the mutations describe, in the order they took effect
    last_act,     \* SeqSpec: the operation that ran last
    last_ret,     \* SeqSpec: what the last call returned
    exp_ret,      \* SeqSpec: what the plain map says it returns
    replayed,     \* SeqSpec: WAL entries replayed, when an open ran last
    pc,           \* Spec, DelSpec: where each client thread is in its call
    arg,          \* Spec, DelSpec: the arguments of each thread's call
    ret,          \* Spec, DelSpec: what each thread's last call returned
    budget,       \* Spec, DelSpec: calls each thread may still make
    ckpt_pc,      \* Spec: where the checkpoint thread is in its cycle
    present0,     \* DelSpec: the keys present when the threads start
    readers,      \* RWLock._readers
    writer,       \* RWLock._writer
    lpc,          \* LockSpec: where each thread is in the lock's methods
    ahead         \* LockSpec: per reader, the writers that waited when it called

VARIABLES
    cpc,          \* CompactSpec: where the compaction thread is in _compact
    index_snapshot, \* _compact's index_snapshot
    todo,         \* _compact: keys of the snapshot still to copy
    tmp_datafile, \* _compact's new_datafile, the temporary data file
    tmp_index,    \* _compact's new_index
    compactions,  \* CompactSpec: runs of _compact still to start
    pre_swap,     \* CompactSpec: the live index and the reads when the swap began
    observed      \* ReadSpec: the last read, with the value the mutations give

VARIABLES
    wal_tail,     \* WalSpec: the incomplete entry at the end of wal.log, if any
    replay_out    \* WalSpec: what WAL.replay returned, or that it raised

VARIABLES
    lockfile,     \* DirSpec: the pid in .lock, or that the file is absent
    ppc,          \* DirSpec: where each process is in _acquire_lock / its life
    seen_pid,     \* DirSpec: the pid each process read from .lock
    owner         \* DirSpec: os.getpid() of the process each store instance is opened in

VARIABLES
    queue,        \* ReplSpec: Replicator.queue
    queue_size,   \* ReplSpec: the queue_size the Replicator was built with
    total_operations,   \* Replicator.total_operations
    dropped_operations, \* Replicator.dropped_operations
    enq,          \* ReplSpec: where each caller is in _enqueue_operation, and what it returned
    in_flight     \* ReplSpec: the operation each worker took from the queue

VARIABLES
    nodes,        \* ReplicaManager.replicas: is_healthy and consecutive_failures of each follower
    max_failures, \* ReplicaManager.max_failures
    fkv,          \* PipeSpec: the key-to-value state of each follower's store
    mode,         \* Replicator.mode, or "none" when the store has no replicator
    is_replica,   \* KVStore.is_replica
    round,        \* PipeSpec: where each dispatcher is in _replicate_to_all
    down          \* PipeSpec: the followers no connection reaches

VARIABLES
    wal_lock,     \* FineSpec: the thread that holds KVStore.wal_lock, or NoThread
    loop,         \* FineSpec: the turns each thread has made of the loop it is in
    scan          \* FineSpec: the read_key_range call of the reader thread

VARIABLES
    size          \* AppendSpec: DataFile.size

store_vars == <<wal, data, index, index_file>>
seq_vars == <<kv, last_act, last_ret, exp_ret>>
thread_vars == <<pc, arg, ret, budget, ckpt_pc, present0>>
lock_vars == <<readers, writer, lpc, ahead>>
hold_vars == <<wal_lock, loop, scan>>
datafile_vars == <<size>>
compact_vars == <<cpc, index_snapshot, todo, tmp_datafile, tmp_index, compactions, pre_swap>>
wal_tail_vars == <<wal_tail, replay_out>>
dir_vars == <<lockfile, ppc, seen_pid, owner>>
repl_vars == <<queue, queue_size, total_operations, dropped_operations, enq, in_flight>>
follow_vars == <<nodes, max_failures, fkv, mode, is_replica, round, down>>
aux_vars == <<compact_vars, observed, wal_tail_vars, dir_vars, repl_vars, follow_vars,
              hold_vars, datafile_vars>>
vars == <<wal, data, index, index_file, kv, last_act, last_ret, exp_ret,
          replayed, pc, arg, ret, budget, ckpt_pc, present0,
          readers, writer, lpc, ahead, aux_vars>>

Threads == 1..NumThreads
Deleters == 1..NumDeleters
LockThreads == 1..NumLockThreads

----------------------------------------------------------------------------
(* KVStore (core/store.py): the methods as functions of the state *)

\* KVStore.read, on a given index and data file
read_at_zero_absent(ix, d, key) ==
    LET location == index_get(ix, key)
    IN  IF location = None \/ location[1] = 0 THEN None
        ELSE LET rec == datafile_read(d, location[1])
             IN  IF rec.key # key THEN None ELSE rec.value

read_in(ix, d, key) ==
    LET location == index_get(ix, key)
    IN  IF location = None THEN None
        ELSE LET rec == datafile_read(d, location[1])
             IN  IF rec.key # key THEN None ELSE rec.value

\* KVStore.read on the running store
read(key) == read_in(index, data, key)

\* KVStore.read_key_range on a given index and data file: a dict key -> value
read_key_range_in(ix, d, start_key, end_key) ==
    LET locations == get_range(ix, start_key, end_key)
        hits == {k \in DOMAIN locations : datafile_read(d, locations[k][1]).key = k}
    IN  [k \in hits |-> datafile_read(d, locations[k][1]).value]

read_key_range(start_key, end_key) == read_key_range_in(index, data, start_key, end_key)

\* The body of put's WriteLock block: append to the data file, update the index
put_apply(ix, d, key, value) ==
    LET a == append(d, key, value)
    IN  [index |-> index_put(ix, key, a.offset, a.length), data |-> a.file]

\* The loop of batch_put's wal_lock block
RECURSIVE batch_log(_, _, _)
batch_log(w, keys, values) ==
    IF keys = <<>> \/ values = <<>> THEN w
    ELSE batch_log(log(w, "put", Head(keys), Head(values)), Tail(keys), Tail(values))

\* The loop of batch_put's WriteLock block
RECURSIVE batch_apply(_, _, _, _)
batch_apply(ix, d, keys, values) ==
    IF keys = <<>> \/ values = <<>> THEN [index |-> ix, data |-> d]
    ELSE LET s == put_apply(ix, d, Head(keys), Head(values))
         IN  batch_apply(s.index, s.data, Tail(keys), Tail(values))

\* The loop of _recover over the replayed entries
RECURSIVE recover_entries(_, _, _)
recover_entries(entries, ix, d) ==
    IF entries = <<>> THEN [index |-> ix, data |-> d]
    ELSE LET e == Head(entries)
         IN  IF e.op = "put"
             THEN LET s == put_apply(ix, d, e.key, e.value)
                  IN  recover_entries(Tail(entries), s.index, s.data)
             ELSE IF e.op = "delete"
             THEN recover_entries(Tail(entries), index_delete(ix, e.key), d)
             ELSE recover_entries(Tail(entries), ix, d)

\* Index.load: the dict pickled in index.db
index_load_empty(f) == EmptyIndex

index_load(f) == f

\* KVStore.__init__ on an existing directory: load the index snapshot, then
\* _recover (replay the WAL; if it had entries, save the index and truncate)
open(w, d, f) ==
    LET entries == replay(w)
        s == recover_entries(entries, index_load(f), d)
    IN  [index |-> s.index,
         data |-> s.data,
         index_file |-> IF entries # <<>> THEN s.index ELSE f,
         wal |-> IF entries # <<>> THEN truncate(w) ELSE w,
         replayed |-> Len(entries)]

\* _compact, rewrite phase: copy the record of every key of the snapshot
\* whose stored key matches into the new file, remembering its new place
RECURSIVE compact_rewrite_old_offsets(_, _, _, _, _)
compact_rewrite_old_offsets(keys, snapshot, d, new_d, new_index) ==
    IF keys = <<>> THEN [file |-> new_d, index |-> new_index]
    ELSE LET key == Head(keys)
             rec == datafile_read(d, snapshot[key][1])
         IN  IF rec.key = key
             THEN LET a == append(new_d, key, rec.value)
                  IN  compact_rewrite_old_offsets(Tail(keys), snapshot, d, a.file,
                          index_put(new_index, key, snapshot[key][1], snapshot[key][2]))
             ELSE compact_rewrite_old_offsets(Tail(keys), snapshot, d, new_d, new_index)

RECURSIVE compact_rewrite(_, _, _, _, _)
compact_rewrite(keys, snapshot, d, new_d, new_index) ==
    IF keys = <<>> THEN [file |-> new_d, index |-> new_index]
    ELSE LET key == Head(keys)
             rec == datafile_read(d, snapshot[key][1])
         IN  IF rec.key = key
             THEN LET a == append(new_d, key, rec.value)
                  IN  compact_rewrite(Tail(keys), snapshot, d, a.file,
                                      index_put(new_index, key, a.offset, a.length))
             ELSE compact_rewrite(Tail(keys), snapshot, d, new_d, new_index)

\* a reconcile that copies only the keys the rewrite did not copy
RECURSIVE compact_reconcile_new_keys_only(_, _, _, _, _, _)
compact_reconcile_new_keys_only(keys, ix, snapshot, d, new_d, new_index) ==
    IF keys = <<>> THEN [file |-> new_d, index |-> new_index]
    ELSE LET key == Head(keys)
         IN  IF key \notin DOMAIN new_index
             THEN LET rec == datafile_read(d, ix[key][1])
                  IN  IF rec = NoRecord
                      THEN compact_reconcile_new_keys_only(Tail(keys), ix, snapshot, d,
                                                           new_d, new_index)
                      ELSE LET a == append(new_d, key, rec.value)
                           IN  compact_reconcile_new_keys_only(Tail(keys), ix, snapshot, d,
                                   a.file, index_put(new_index, key, a.offset, a.length))
             ELSE compact_reconcile_new_keys_only(Tail(keys), ix, snapshot, d,
                                                  new_d, new_index)

\* _compact, reconcile loop under the WriteLock: copy every key of the live
\* index that is new or whose entry differs from the snapshot's
RECURSIVE compact_reconcile(_, _, _, _, _, _)
compact_reconcile(keys, ix, snapshot, d, new_d, new_index) ==
    IF keys = <<>> THEN [file |-> new_d, index |-> new_index]
    ELSE LET key == Head(keys)
         IN  IF key \notin DOMAIN new_index \/ ix[key] # index_get(snapshot, key)
             THEN LET rec == datafile_read(d, ix[key][1])
                  IN  IF rec = NoRecord
                      THEN compact_reconcile(Tail(keys), ix, snapshot, d, new_d, new_index)
                      ELSE LET a == append(new_d, key, rec.value)
                           IN  compact_reconcile(Tail(keys), ix, snapshot, d, a.file,
                                   index_put(new_index, key, a.offset, a.length))
             ELSE compact_reconcile(Tail(keys), ix, snapshot, d, new_d, new_index)

\* _compact called with no other thread running: snapshot, rewrite, reconcile
\* and swap; nothing happens when the index is empty
compact_all(ix, d) ==
    IF DOMAIN ix = {} THEN [index |-> ix, data |-> d, saved |-> FALSE]
    ELSE LET rw == compact_rewrite(key_order(DOMAIN ix), ix, d, <<>>, EmptyIndex)
             rc == compact_reconcile(key_order(DOMAIN ix), ix, ix, d, rw.file, rw.index)
         IN  [index |-> rc.index, data |-> rc.file, saved |-> TRUE]

\* The body of delete's WriteLock block and the value delete then returns
delete_apply_no_recheck(ix, key) == [index |-> index_delete(ix, key), ret |-> "True"]

delete_apply(ix, key) ==
    IF index_get(ix, key) = None THEN [index |-> ix, ret |-> "False"]
    ELSE [index |-> index_delete(ix, key), ret |-> "True"]

\* The number of put entries in a WAL: the records its replay appends
RECURSIVE num_puts(_)
num_puts(w) ==
    IF w = <<>> THEN 0
    ELSE (IF Head(w).op = "put" THEN 1 ELSE 0) + num_puts(Tail(w))

----------------------------------------------------------------------------
(* SeqSpec: one client, one call at a time *)

EmptyKV == [k \in {} |-> <<>>]

kv_get(key) == IF key \in DOMAIN kv THEN kv[key] ELSE None

kv_put(m, key, value) == [k \in DOMAIN m \cup {key} |-> IF k = key THEN value ELSE m[k]]

RECURSIVE kv_batch(_, _, _)
kv_batch(m, keys, values) ==
    IF keys = <<>> \/ values = <<>> THEN m
    ELSE kv_batch(kv_put(m, Head(keys), Head(values)), Tail(keys), Tail(values))

SeqsUpTo(S, n) == UNION {[1..m -> S] : m \in 0..n}

idle_threads ==
    /\ pc = [t \in Threads |-> "idle"]
    /\ arg = [t \in Threads |-> [key |-> None, value |-> None]]
    /\ ret = [t \in Threads |-> "None"]
    /\ budget = [t \in Threads |-> 0]
    /\ ckpt_pc = "wait"
    /\ present0 = {}

idle_lock ==
    /\ readers = 0
    /\ writer = FALSE
    /\ lpc = [t \in LockThreads |-> "idle"]
    /\ ahead = [t \in LockThreads |-> {}]

\* No swap of _compact has happened
NoSwap == [swapped |-> FALSE, keys |-> {}, reads |-> [k \in {} |-> <<>>]]

\* No read has been made
NoRead == [key |-> None, value |-> None, expected |-> None]

\* No pid: .lock is absent, or nothing was read from it
NoPid == 0

idle_compactor ==
    /\ cpc = "idle"
    /\ index_snapshot = EmptyIndex
    /\ todo = <<>>
    /\ tmp_datafile = <<>>
    /\ tmp_index = EmptyIndex
    /\ compactions = 0
    /\ pre_swap = NoSwap

idle_wal_tail ==
    /\ wal_tail = "none"
    /\ replay_out = [raised |-> FALSE, entries |-> <<>>]

idle_dir ==
    /\ lockfile = NoPid
    /\ ppc = <<>>
    /\ seen_pid = <<>>
    /\ owner = <<>>

idle_repl ==
    /\ queue = <<>>
    /\ queue_size = 1
    /\ total_operations = 0
    /\ dropped_operations = 0
    /\ enq = <<>>
    /\ in_flight = <<>>

NoThread == 0          \* no thread holds the mutex

NoScan == [pc |-> "idle", start_key |-> <<>>, end_key |-> <<>>,
           locations |-> EmptyIndex, todo |-> <<>>, result |-> EmptyKV]

\* DataFile.size is not followed: the file's length stands for it
idle_datafile == size = 0

\* no thread of the store is inside a lock block of its own
idle_hold ==
    /\ wal_lock = NoThread
    /\ loop = <<>>
    /\ scan = NoScan

\* A store without replication: no replicator, no follower
idle_follow ==
    /\ nodes = <<>>
    /\ max_failures = 3
    /\ fkv = <<>>
    /\ mode = "none"
    /\ is_replica = FALSE
    /\ round = <<>>
    /\ down = {}

idle_aux ==
    /\ idle_follow
    /\ idle_compactor
    /\ observed = NoRead
    /\ idle_wal_tail
    /\ idle_dir
    /\ idle_repl
    /\ idle_follow

empty_store ==
    /\ wal = <<>>
    /\ data = <<>>
    /\ index = EmptyIndex
    /\ index_file = EmptyIndex
    /\ replayed = 0

SeqInit ==
    /\ empty_store
    /\ kv = EmptyKV
    /\ last_act = "open"
    /\ last_ret = "None"
    /\ exp_ret = "None"
    /\ idle_threads
    /\ idle_lock
    /\ idle_hold
    /\ idle_datafile
    /\ idle_aux

put(key, value) ==
    /\ Len(wal) < MaxWal
    /\ Len(data) < MaxRecords
    /\ wal' = log(wal, "put", key, value)
    /\ LET s == put_apply(index, data, key, value)
       IN  index' = s.index /\ data' = s.data
    /\ last_ret' = "True"
    /\ kv' = kv_put(kv, key, value)
    /\ exp_ret' = "True"
    /\ last_act' = "put"
    /\ replayed' = 0
    /\ UNCHANGED index_file
    /\ UNCHANGED <<thread_vars, lock_vars, hold_vars, datafile_vars, aux_vars>>

\* a batch_put that logs the pairs before it checks the lengths
batch_put_logs_first(keys, values) ==
    /\ Len(wal) + Len(keys) <= MaxWal
    /\ Len(data) + Len(keys) <= MaxRecords
    /\ wal' = batch_log(wal, keys, values)
    /\ IF Len(keys) # Len(values)
       THEN /\ last_ret' = "ValueError"
            /\ exp_ret' = "ValueError"
            /\ UNCHANGED <<index, data, kv>>
       ELSE /\ LET s == batch_apply(index, data, keys, values)
               IN  index' = s.index /\ data' = s.data
            /\ last_ret' = "True"
            /\ kv' = kv_batch(kv, keys, values)
            /\ exp_ret' = "True"
    /\ last_act' = "batch_put"
    /\ replayed' = 0
    /\ UNCHANGED index_file
    /\ UNCHANGED <<thread_vars, lock_vars, hold_vars, datafile_vars, aux_vars>>

batch_put(keys, values) ==
    /\ Len(wal) + Len(keys) <= MaxWal
    /\ Len(data) + Len(keys) <= MaxRecords
    /\ IF Len(keys) # Len(values)
       THEN /\ last_ret' = "ValueError"
            /\ exp_ret' = "ValueError"
            /\ UNCHANGED <<wal, index, data, kv>>
       ELSE /\ wal' = batch_log(wal, keys, values)
            /\ LET s == batch_apply(index, data, keys, values)
               IN  index' = s.index /\ data' = s.data
            /\ last_ret' = "True"
            /\ kv' = kv_batch(kv, keys, values)
            /\ exp_ret' = "True"
    /\ last_act' = "batch_put"
    /\ replayed' = 0
    /\ UNCHANGED index_file
    /\ UNCHANGED <<thread_vars, lock_vars, hold_vars, datafile_vars, aux_vars>>

delete(key) ==
    /\ IF index_get(index, key) = None
       THEN /\ last_ret' = "False"
            /\ UNCHANGED <<wal, index>>
       ELSE /\ Len(wal) < MaxWal
            /\ wal' = log(wal, "delete", key, None)
            /\ LET s == delete_apply(index, key)
               IN  index' = s.index /\ last_ret' = s.ret
    /\ kv' = [k \in DOMAIN kv \ {key} |-> kv[k]]
    /\ exp_ret' = IF key \in DOMAIN kv THEN "True" ELSE "False"
    /\ last_act' = "delete"
    /\ replayed' = 0
    /\ UNCHANGED <<data, index_file>>
    /\ UNCHANGED <<thread_vars, lock_vars, hold_vars, datafile_vars, aux_vars>>

\* One cycle of _checkpoint_loop, between two calls of the client
checkpoint ==
    /\ index_file' = index
    /\ wal' = truncate(wal)
    /\ last_act' = "checkpoint"
    /\ last_ret' = "None"
    /\ exp_ret' = "None"
    /\ replayed' = 0
    /\ UNCHANGED <<data, index, kv>>
    /\ UNCHANGED <<thread_vars, lock_vars, hold_vars, datafile_vars, aux_vars>>

\* _compact, between two calls of the client
compact ==
    /\ LET c == compact_all(index, data)
       IN  /\ index' = c.index
           /\ data' = c.data
           /\ index_file' = IF c.saved THEN c.index ELSE index_file
    /\ last_act' = "compact"
    /\ last_ret' = "None"
    /\ exp_ret' = "None"
    /\ replayed' = 0
    /\ UNCHANGED <<wal, kv>>
    /\ UNCHANGED <<thread_vars, lock_vars, hold_vars, datafile_vars, aux_vars>>

\* close() (which saves the index), then KVStore(...) on the same directory
close_open ==
    /\ Len(data) + num_puts(wal) <= MaxRecords
    /\ LET o == open(wal, data, index)
       IN  /\ index' = o.index
           /\ data' = o.data
           /\ index_file' = o.index_file
           /\ wal' = o.wal
           /\ replayed' = o.replayed
    /\ last_act' = "close_open"
    /\ last_ret' = "None"
    /\ exp_ret' = "None"
    /\ UNCHANGED kv
    /\ UNCHANGED <<thread_vars, lock_vars, hold_vars, datafile_vars, aux_vars>>

\* The process is killed (the in-memory index is lost), then KVStore(...) on
\* the same directory
kill_open ==
    /\ Len(data) + num_puts(wal) <= MaxRecords
    /\ LET o == open(wal, data, index_file)
       IN  /\ index' = o.index
           /\ data' = o.data
           /\ index_file' = o.index_file
           /\ wal' = o.wal
           /\ replayed' = o.replayed
    /\ last_act' = "kill_open"
    /\ last_ret' = "None"
    /\ exp_ret' = "None"
    /\ UNCHANGED kv
    /\ UNCHANGED <<thread_vars, lock_vars, hold_vars, datafile_vars, aux_vars>>

SeqNext ==
    \/ \E key \in Keys, value \in Values : put(key, value)
    \/ \E keys \in SeqsUpTo(Keys, MaxBatch) :
           \E values \in {v \in SeqsUpTo(Values, MaxBatch) :
                             Len(v) \in {Len(keys) - 1, Len(keys), Len(keys) + 1}} :
               batch_put(keys, values)
    \/ \E key \in Keys : delete(key)
    \/ checkpoint
    \/ compact
    \/ close_open
    \/ kill_open

SeqSpec == SeqInit /\ [][SeqNext]_vars

----------------------------------------------------------------------------
(* ShouldSpec: one client, compactions between its calls, and the check    *)
(* the compaction loop makes before each compaction.                       *)
(* Config.COMPACTION_MIN_FILE_SIZE and Config.COMPACTION_THRESHOLD are     *)
(* class attributes read at each check; the threshold is in tenths.        *)

MinFileSizes == {0, 16, 100}

ThresholdTenths == {3, 5}

\* sum(length for offset, length in self.index.index.values())
RECURSIVE index_bytes(_)
index_bytes(ix) ==
    IF DOMAIN ix = {} THEN 0
    ELSE LET k == CHOOSE x \in DOMAIN ix : TRUE
         IN  ix[k][2] + index_bytes([x \in DOMAIN ix \ {k} |-> ix[x]])

\* dead_ratio >= threshold, for 1 - live_size / total_size, total_size > 0
dead_ratio_reached(total_size, live_size, tenths) ==
    10 * (total_size - live_size) >= tenths * total_size

\* KVStore._should_compact
should_compact(d, ix, min_file_size, tenths) ==
    IF file_size(d) < min_file_size THEN FALSE
    ELSE IF DOMAIN ix = {} THEN FALSE
    ELSE IF file_size(d) = 0 THEN FALSE
    ELSE dead_ratio_reached(file_size(d), index_bytes(ix), tenths)

\* _compaction_loop: if self._should_compact(): ...
should_compact_check(min_file_size, tenths) ==
    /\ last_ret' = IF should_compact(data, index, min_file_size, tenths)
                   THEN "True" ELSE "False"
    /\ last_act' = "_should_compact"
    /\ exp_ret' = "None"
    /\ replayed' = 0
    /\ UNCHANGED <<wal, data, index, index_file, kv>>
    /\ UNCHANGED <<thread_vars, lock_vars, hold_vars, datafile_vars, aux_vars>>

ShouldNext ==
    \/ \E key \in Keys, value \in Values : put(key, value)
    \/ \E key \in Keys : delete(key)
    \/ compact
    \/ \E min_file_size \in MinFileSizes, tenths \in ThresholdTenths :
           should_compact_check(min_file_size, tenths)

ShouldSpec == SeqInit /\ [][ShouldNext]_vars

----------------------------------------------------------------------------
(* Spec: client threads against the checkpoint thread.  Each `with lock:`   *)
(* block of store.py is one step: the WAL mutex and the shared-exclusive    *)
(* lock keep two blocks on the same lock from overlapping.                  *)

Init ==
    /\ empty_store
    /\ kv = EmptyKV
    /\ last_act = "open"
    /\ last_ret = "None"
    /\ exp_ret = "None"
    /\ pc = [t \in Threads |-> "idle"]
    /\ arg = [t \in Threads |-> [key |-> None, value |-> None]]
    /\ ret = [t \in Threads |-> "None"]
    /\ budget = [t \in Threads |-> MaxCalls]
    /\ ckpt_pc = "wait"
    /\ present0 = {}
    /\ idle_lock
    /\ idle_hold
    /\ idle_datafile
    /\ idle_aux

\* The records that threads have logged and not yet appended
RECURSIVE pending_records(_)
pending_records(T) ==
    IF T = {} THEN 0
    ELSE LET t == CHOOSE x \in T : TRUE
         IN  (IF pc[t] = "put_phase2" THEN 1
              ELSE IF pc[t] = "batch_put_phase2" THEN Len(arg[t].key)
              ELSE 0) + pending_records(T \ {t})

pending_puts == pending_records(DOMAIN pc)

\* the test before phase 3: if self.replicator and not self.is_replica
replicates == mode # "none" /\ ~is_replica

\* put, phase 1: with self.wal_lock: self.wal.log('put', key, value)
put_phase1(t, key, value) ==
    /\ pc[t] = "idle"
    /\ budget[t] > 0
    /\ Len(wal) < MaxWal
    /\ Len(data) + pending_puts < MaxRecords
    /\ wal' = log(wal, "put", key, value)
    /\ pc' = [pc EXCEPT ![t] = "put_phase2"]
    /\ arg' = [arg EXCEPT ![t] = [key |-> key, value |-> value]]
    /\ ret' = [ret EXCEPT ![t] = "None"]
    /\ budget' = [budget EXCEPT ![t] = @ - 1]
    /\ UNCHANGED <<data, index, index_file, replayed, ckpt_pc, present0>>
    /\ UNCHANGED <<seq_vars, lock_vars, hold_vars, datafile_vars, aux_vars>>

\* a put that returns True after phase 2 and never replicates
put_phase2_returns(t) ==
    /\ pc[t] = "put_phase2"
    /\ LET s == put_apply(index, data, arg[t].key, arg[t].value)
       IN  index' = s.index /\ data' = s.data
    /\ pc' = [pc EXCEPT ![t] = "idle"]
    /\ ret' = [ret EXCEPT ![t] = "True"]
    /\ UNCHANGED <<wal, index_file, replayed, arg, budget, ckpt_pc, present0>>
    /\ kv' = kv_put(kv, arg[t].key, arg[t].value)
    /\ UNCHANGED <<last_act, last_ret, exp_ret, lock_vars, hold_vars, datafile_vars, aux_vars>>

\* put, phase 2: with WriteLock: append, index.put; then go on to phase 3,
\* or return True when there is nothing to replicate
put_phase2(t) ==
    /\ pc[t] = "put_phase2"
    /\ LET s == put_apply(index, data, arg[t].key, arg[t].value)
       IN  index' = s.index /\ data' = s.data
    /\ pc' = [pc EXCEPT ![t] = IF replicates THEN "put_phase3" ELSE "idle"]
    /\ ret' = [ret EXCEPT ![t] = IF replicates THEN "None" ELSE "True"]
    /\ UNCHANGED <<wal, index_file, replayed, arg, budget, ckpt_pc, present0>>
    /\ kv' = kv_put(kv, arg[t].key, arg[t].value)
    /\ UNCHANGED <<last_act, last_ret, exp_ret, lock_vars, hold_vars, datafile_vars, aux_vars>>

\* delete, the check under the ReadLock: return False if the key is absent
delete_phase0(t, key) ==
    /\ pc[t] = "idle"
    /\ budget[t] > 0
    /\ arg' = [arg EXCEPT ![t] = [key |-> key, value |-> None]]
    /\ budget' = [budget EXCEPT ![t] = @ - 1]
    /\ IF index_get(index, key) = None
       THEN /\ ret' = [ret EXCEPT ![t] = "False"]
            /\ UNCHANGED pc
       ELSE /\ ret' = [ret EXCEPT ![t] = "None"]
            /\ pc' = [pc EXCEPT ![t] = "delete_phase1"]
    /\ UNCHANGED <<store_vars, replayed, ckpt_pc, present0>>
    /\ UNCHANGED <<seq_vars, lock_vars, hold_vars, datafile_vars, aux_vars>>

\* delete, phase 1: with self.wal_lock: self.wal.log('delete', key)
delete_phase1(t) ==
    /\ pc[t] = "delete_phase1"
    /\ wal' = log(wal, "delete", arg[t].key, None)
    /\ pc' = [pc EXCEPT ![t] = "delete_phase2"]
    /\ UNCHANGED <<data, index, index_file, replayed, arg, ret, budget, ckpt_pc, present0>>
    /\ UNCHANGED <<seq_vars, lock_vars, hold_vars, datafile_vars, aux_vars>>

\* delete, phase 2: with WriteLock: re-check and return False, or
\* index.delete; then go on to phase 3, or return True when there is nothing
\* to replicate
delete_phase2(t) ==
    /\ pc[t] = "delete_phase2"
    /\ LET s == delete_apply(index, arg[t].key)
           goes_on == s.ret = "True" /\ replicates
       IN  /\ index' = s.index
           /\ ret' = [ret EXCEPT ![t] = IF goes_on THEN "None" ELSE s.ret]
           /\ pc' = [pc EXCEPT ![t] = IF goes_on THEN "delete_phase3" ELSE "idle"]
    /\ UNCHANGED <<wal, data, index_file, replayed, arg, budget, ckpt_pc, present0>>
    /\ kv' = [k \in DOMAIN kv \ {arg[t].key} |-> kv[k]]
    /\ UNCHANGED <<last_act, last_ret, exp_ret, lock_vars, hold_vars, datafile_vars, aux_vars>>

\* _checkpoint_loop: with WriteLock(self.rwlock): self.index.save()
checkpoint_save ==
    /\ ckpt_pc = "wait"
    /\ index_file' = index
    /\ ckpt_pc' = "truncate"
    /\ UNCHANGED <<wal, data, index, replayed, pc, arg, ret, budget, present0>>
    /\ UNCHANGED <<seq_vars, lock_vars, hold_vars, datafile_vars, aux_vars>>

\* _checkpoint_loop: with self.wal_lock: self.wal.truncate()
checkpoint_truncate ==
    /\ ckpt_pc = "truncate"
    /\ wal' = truncate(wal)
    /\ ckpt_pc' = "wait"
    /\ UNCHANGED <<data, index, index_file, replayed, pc, arg, ret, budget, present0>>
    /\ UNCHANGED <<seq_vars, lock_vars, hold_vars, datafile_vars, aux_vars>>

\* The process is killed wherever its threads are, and a new process opens
\* the directory
kill_restart ==
    /\ Len(data) + num_puts(wal) <= MaxRecords
    /\ LET o == open(wal, data, index_file)
       IN  /\ index' = o.index
           /\ data' = o.data
           /\ index_file' = o.index_file
           /\ wal' = o.wal
    /\ pc' = [t \in DOMAIN pc |-> "idle"]
    /\ ret' = [t \in DOMAIN ret |-> "None"]
    /\ ckpt_pc' = "wait"
    /\ UNCHANGED <<replayed, arg, budget, present0>>
    /\ kv' = (LET o == open(wal, data, index_file)
              IN  [k \in DOMAIN o.index |-> read_in(o.index, o.data, k)])
    /\ UNCHANGED <<last_act, last_ret, exp_ret, lock_vars, hold_vars, datafile_vars, aux_vars>>

Next ==
    \/ \E t \in Threads, key \in Keys, value \in Values : put_phase1(t, key, value)
    \/ \E t \in Threads : put_phase2(t)
    \/ \E t \in Threads, key \in Keys : delete_phase0(t, key)
    \/ \E t \in Threads : delete_phase1(t)
    \/ \E t \in Threads : delete_phase2(t)
    \/ checkpoint_save
    \/ checkpoint_truncate
    \/ kill_restart

Spec == Init /\ [][Next]_vars

----------------------------------------------------------------------------
(* DelSpec: threads that each call delete once, on a store that holds the   *)
(* keys of present0                                                         *)

DelInit ==
    /\ present0 \in SUBSET Keys
    /\ LET keys == key_order(present0)
           s == batch_apply(EmptyIndex, <<>>, keys, [i \in 1..Len(keys) |-> <<7>>])
       IN  /\ index = s.index
           /\ data = s.data
           /\ index_file = s.index
    /\ wal = <<>>
    /\ replayed = 0
    /\ kv = [k \in present0 |-> <<7>>]
    /\ last_act = "open"
    /\ last_ret = "None"
    /\ exp_ret = "None"
    /\ pc = [t \in Deleters |-> "idle"]
    /\ arg = [t \in Deleters |-> [key |-> None, value |-> None]]
    /\ ret = [t \in Deleters |-> "None"]
    /\ budget = [t \in Deleters |-> 1]
    /\ ckpt_pc = "wait"
    /\ idle_lock
    /\ idle_hold
    /\ idle_datafile
    /\ idle_aux

DelNext ==
    \/ \E t \in Deleters, key \in Keys : delete_phase0(t, key)
    \/ \E t \in Deleters : delete_phase1(t)
    \/ \E t \in Deleters : delete_phase2(t)

DelSpec == DelInit /\ [][DelNext]_vars

----------------------------------------------------------------------------
(* LockSpec: RWLock (utils/rwlock.py).  Each method body runs under         *)
(* self._lock, so it is one step up to a wait(); a thread in wait() is      *)
(* parked until a notify picks it, and then tests its loop condition again. *)

\* acquire_read's loop condition: while self._writer
read_must_wait == writer

\* acquire_write's loop condition: while self._readers > 0 or self._writer
write_must_wait_writer_only == writer

write_must_wait == readers > 0 \/ writer

waiting_writers == {u \in LockThreads : lpc[u] = "wait_write"}

\* Condition.notify(): at most one of the parked threads is woken
notify(waiters) == IF waiters = {} THEN {{}} ELSE {{u} : u \in waiters}

\* The writers a reader that calls acquire_read now arrives behind
requesting_writers == {u \in LockThreads : lpc[u] \in {"wait_write", "woken_write"}}

LockInit ==
    /\ idle_lock
    /\ idle_hold
    /\ idle_datafile
    /\ idle_aux
    /\ empty_store
    /\ kv = EmptyKV
    /\ last_act = "open"
    /\ last_ret = "None"
    /\ exp_ret = "None"
    /\ idle_threads

\* acquire_read, from the call to the first wait() or to the return
acquire_read(t) ==
    /\ lpc[t] = "idle"
    /\ ahead' = [ahead EXCEPT ![t] = requesting_writers]
    /\ IF read_must_wait
       THEN /\ lpc' = [lpc EXCEPT ![t] = "wait_read"]
            /\ UNCHANGED readers
       ELSE /\ readers' = readers + 1
            /\ lpc' = [lpc EXCEPT ![t] = "reading"]
    /\ UNCHANGED writer
    /\ UNCHANGED <<store_vars, replayed, seq_vars, thread_vars, aux_vars>>

\* acquire_read, from a wake-up to the next wait() or to the return
acquire_read_woken(t) ==
    /\ lpc[t] = "woken_read"
    /\ IF read_must_wait
       THEN /\ lpc' = [lpc EXCEPT ![t] = "wait_read"]
            /\ UNCHANGED readers
       ELSE /\ readers' = readers + 1
            /\ lpc' = [lpc EXCEPT ![t] = "reading"]
    /\ UNCHANGED <<writer, ahead>>
    /\ UNCHANGED <<store_vars, replayed, seq_vars, thread_vars, aux_vars>>

release_read(t) ==
    /\ lpc[t] = "reading"
    /\ readers' = readers - 1
    /\ \E woken \in (IF readers' = 0 THEN notify(waiting_writers) ELSE {{}}) :
           lpc' = [u \in LockThreads |->
                      IF u = t THEN "idle"
                      ELSE IF u \in woken THEN "woken_write"
                      ELSE lpc[u]]
    /\ UNCHANGED <<writer, ahead>>
    /\ UNCHANGED <<store_vars, replayed, seq_vars, thread_vars, aux_vars>>

\* acquire_write, from the call to the first wait() or to the return
acquire_write(t) ==
    /\ lpc[t] = "idle"
    /\ IF write_must_wait
       THEN /\ lpc' = [lpc EXCEPT ![t] = "wait_write"]
            /\ UNCHANGED writer
       ELSE /\ writer' = TRUE
            /\ lpc' = [lpc EXCEPT ![t] = "writing"]
    /\ UNCHANGED <<readers, ahead>>
    /\ UNCHANGED <<store_vars, replayed, seq_vars, thread_vars, aux_vars>>

\* acquire_write, from a wake-up to the next wait() or to the return
acquire_write_woken(t) ==
    /\ lpc[t] = "woken_write"
    /\ IF write_must_wait
       THEN /\ lpc' = [lpc EXCEPT ![t] = "wait_write"]
            /\ UNCHANGED writer
       ELSE /\ writer' = TRUE
            /\ lpc' = [lpc EXCEPT ![t] = "writing"]
    /\ UNCHANGED <<readers, ahead>>
    /\ UNCHANGED <<store_vars, replayed, seq_vars, thread_vars, aux_vars>>

\* release_write: notify one waiting writer, then notify_all waiting readers
release_write(t) ==
    /\ lpc[t] = "writing"
    /\ writer' = FALSE
    /\ \E woken \in notify(waiting_writers) :
           lpc' = [u \in LockThreads |->
                      IF u = t THEN "idle"
                      ELSE IF u \in woken THEN "woken_write"
                      ELSE IF lpc[u] = "wait_read" THEN "woken_read"
                      ELSE lpc[u]]
    /\ ahead' = [u \in LockThreads |-> ahead[u] \ {t}]
    /\ UNCHANGED readers
    /\ UNCHANGED <<store_vars, replayed, seq_vars, thread_vars, aux_vars>>

LockNext ==
    \E t \in LockThreads :
        \/ acquire_read(t)
        \/ acquire_read_woken(t)
        \/ release_read(t)
        \/ acquire_write(t)
        \/ acquire_write_woken(t)
        \/ release_write(t)

LockSpec == LockInit /\ [][LockNext]_vars

\* Fair scheduling: a thread that holds the lock releases it (each hold is
\* finite) and a thread that was woken runs; no thread is obliged to call.
LockFairness ==
    \A t \in LockThreads :
        /\ WF_vars(release_read(t))
        /\ WF_vars(release_write(t))
        /\ WF_vars(acquire_read_woken(t))
        /\ WF_vars(acquire_write_woken(t))

LockFairSpec == LockInit /\ [][LockNext]_vars /\ LockFairness

----------------------------------------------------------------------------
(* CompactSpec: client threads against the compaction thread.  _compact     *)
(* takes its snapshot under the ReadLock, copies the snapshot's records one *)
(* ReadLock block per key, and reconciles and swaps under the WriteLock.    *)

CompactInit ==
    /\ empty_store
    /\ kv = EmptyKV
    /\ last_act = "open"
    /\ last_ret = "None"
    /\ exp_ret = "None"
    /\ pc = [t \in Threads |-> "idle"]
    /\ arg = [t \in Threads |-> [key |-> None, value |-> None]]
    /\ ret = [t \in Threads |-> "None"]
    /\ budget = [t \in Threads |-> MaxCalls]
    /\ ckpt_pc = "wait"
    /\ present0 = {}
    /\ idle_lock
    /\ idle_hold
    /\ idle_datafile
    /\ cpc = "idle"
    /\ index_snapshot = EmptyIndex
    /\ todo = <<>>
    /\ tmp_datafile = <<>>
    /\ tmp_index = EmptyIndex
    /\ compactions = MaxCompactions
    /\ pre_swap = NoSwap
    /\ observed = NoRead
    /\ idle_wal_tail
    /\ idle_dir
    /\ idle_repl
    /\ idle_follow

\* batch_put, the length check and phase 1: raise ValueError on a length
\* mismatch, else log every pair under the wal_lock
batch_put_phase1(t, keys, values) ==
    /\ pc[t] = "idle"
    /\ budget[t] > 0
    /\ budget' = [budget EXCEPT ![t] = @ - 1]
    /\ arg' = [arg EXCEPT ![t] = [key |-> keys, value |-> values]]
    /\ IF Len(keys) # Len(values)
       THEN /\ ret' = [ret EXCEPT ![t] = "ValueError"]
            /\ UNCHANGED <<wal, pc>>
       ELSE /\ Len(wal) + Len(keys) <= MaxWal
            /\ Len(data) + pending_puts + Len(keys) <= MaxRecords
            /\ wal' = batch_log(wal, keys, values)
            /\ ret' = [ret EXCEPT ![t] = "None"]
            /\ pc' = [pc EXCEPT ![t] = "batch_put_phase2"]
    /\ UNCHANGED <<data, index, index_file, replayed, ckpt_pc, present0>>
    /\ UNCHANGED <<seq_vars, lock_vars, hold_vars, datafile_vars, aux_vars>>

\* batch_put, phase 2: with WriteLock: append and index.put for every pair;
\* then go on to phase 3, or return True when there is nothing to replicate
batch_put_phase2(t) ==
    /\ pc[t] = "batch_put_phase2"
    /\ LET s == batch_apply(index, data, arg[t].key, arg[t].value)
       IN  index' = s.index /\ data' = s.data
    /\ pc' = [pc EXCEPT ![t] = IF replicates THEN "batch_put_phase3" ELSE "idle"]
    /\ ret' = [ret EXCEPT ![t] = IF replicates THEN "None" ELSE "True"]
    /\ kv' = kv_batch(kv, arg[t].key, arg[t].value)
    /\ UNCHANGED <<wal, index_file, replayed, arg, budget, ckpt_pc, present0>>
    /\ UNCHANGED <<last_act, last_ret, exp_ret, lock_vars, hold_vars, datafile_vars, aux_vars>>

\* _compact, the snapshot under the ReadLock; return if the index is empty
compact_snapshot ==
    /\ cpc = "idle"
    /\ compactions > 0
    /\ compactions' = compactions - 1
    /\ index_snapshot' = index
    /\ todo' = key_order(DOMAIN index)
    /\ cpc' = IF DOMAIN index = {} THEN "idle" ELSE "rewrite"
    /\ tmp_datafile' = <<>>
    /\ tmp_index' = EmptyIndex
    /\ pre_swap' = NoSwap
    /\ UNCHANGED <<store_vars, replayed, seq_vars, thread_vars, lock_vars, hold_vars, datafile_vars>>
    /\ UNCHANGED <<observed, wal_tail_vars, dir_vars, repl_vars, follow_vars>>

\* _compact, one turn of the copy loop: read the record at the snapshot's
\* offset under the ReadLock, append it to the temporary file
compact_copy ==
    /\ cpc = "rewrite"
    /\ LET rw == compact_rewrite(<<Head(todo)>>, index_snapshot, data,
                                 tmp_datafile, tmp_index)
       IN  /\ tmp_datafile' = rw.file
           /\ tmp_index' = rw.index
    /\ todo' = Tail(todo)
    /\ cpc' = IF Tail(todo) = <<>> THEN "swap" ELSE "rewrite"
    /\ UNCHANGED <<index_snapshot, compactions, pre_swap>>
    /\ UNCHANGED <<store_vars, replayed, seq_vars, thread_vars, lock_vars, hold_vars, datafile_vars>>
    /\ UNCHANGED <<observed, wal_tail_vars, dir_vars, repl_vars, follow_vars>>

\* _compact, the WriteLock block: reconcile with the live index, swap the
\* files, install new_index and save it
compact_swap ==
    /\ cpc = "swap"
    /\ LET rc == compact_reconcile(key_order(DOMAIN index), index, index_snapshot,
                                   data, tmp_datafile, tmp_index)
       IN  /\ data' = rc.file
           /\ index' = rc.index
           /\ index_file' = rc.index
    /\ pre_swap' = [swapped |-> TRUE,
                    keys |-> DOMAIN index,
                    reads |-> [k \in DOMAIN index |-> read(k)]]
    /\ cpc' = "idle"
    /\ index_snapshot' = EmptyIndex
    /\ tmp_datafile' = <<>>
    /\ tmp_index' = EmptyIndex
    /\ UNCHANGED <<wal, replayed, todo, compactions>>
    /\ UNCHANGED <<seq_vars, thread_vars, lock_vars, hold_vars, datafile_vars>>
    /\ UNCHANGED <<observed, wal_tail_vars, dir_vars, repl_vars, follow_vars>>

\* the calls of the client threads, one lock block per step
ClientNext ==
    \/ \E t \in Threads, key \in Keys, value \in Values : put_phase1(t, key, value)
    \/ \E t \in Threads : put_phase2(t)
    \/ \E t \in Threads, key \in Keys : delete_phase0(t, key)
    \/ \E t \in Threads : delete_phase1(t)
    \/ \E t \in Threads : delete_phase2(t)

\* the steps of the compaction thread
CompactorNext ==
    \/ compact_snapshot
    \/ compact_copy
    \/ compact_swap

CompactNext ==
    \/ ClientNext
    \/ \E t \in Threads, keys \in [1..MaxBatch -> Keys], values \in [1..MaxBatch -> Values] :
           batch_put_phase1(t, keys, values)
    \/ \E t \in Threads : batch_put_phase2(t)
    \/ CompactorNext

CompactSpec == CompactInit /\ [][CompactNext]_vars

\* ClientSpec: the client threads alone, with no checkpoint and no compaction
ClientSpec == CompactInit /\ [][ClientNext]_vars

----------------------------------------------------------------------------
(* ReadSpec: put, delete and compaction with reader threads.  read is one   *)
(* ReadLock block.                                                         *)

\* read(key) by a reader thread; the value the mutations that have released
\* the exclusive lock give is recorded beside the value returned
read_call(key) ==
    /\ observed' = [key |-> key, value |-> read(key), expected |-> kv_get(key)]
    /\ UNCHANGED <<store_vars, replayed, seq_vars, thread_vars, lock_vars, hold_vars, datafile_vars>>
    /\ UNCHANGED <<compact_vars, wal_tail_vars, dir_vars, repl_vars, follow_vars>>

ReadNext ==
    \/ ClientNext
    \/ CompactorNext
    \/ \E key \in Keys : read_call(key)

ReadSpec == CompactInit /\ [][ReadNext]_vars

----------------------------------------------------------------------------
(* AppendSpec: one client calling put and read on a store whose data file  *)
(* is on a disk where os.fsync may raise.  DataFile.size is a field of its *)
(* own here, beside the file.                                              *)

AppendOutcomes == {"returns", "fsync_raises"}

\* DataFile.append with self.size: the record is written at the end of the
\* file (mode 'a+b'), the offset returned is self.size, and self.size grows
\* after os.fsync has returned
append_at_size(d, sz, key, value, outcome) ==
    [file |-> Append(d, [key |-> key, value |-> value]),
     size |-> IF outcome = "returns" THEN sz + record_len(key, value) ELSE sz,
     offset |-> sz,
     length |-> record_len(key, value),
     raised |-> outcome # "returns"]

\* KVStore.put: the WAL entry, then the append and the index update; an
\* exception of the append is caught and put returns False
put_on_disk(key, value, outcome) ==
    /\ Len(wal) < MaxWal
    /\ Len(data) < MaxRecords
    /\ wal' = log(wal, "put", key, value)
    /\ \E a \in {append_at_size(data, size, key, value, outcome)} :
           /\ data' = a.file
           /\ size' = a.size
           /\ index' = IF a.raised THEN index
                       ELSE index_put(index, key, a.offset, a.length)
           /\ last_ret' = IF a.raised THEN "False" ELSE "True"
           /\ kv' = IF a.raised THEN kv ELSE kv_put(kv, key, value)
    /\ exp_ret' = last_ret'
    /\ last_act' = "put"
    /\ replayed' = 0
    /\ UNCHANGED <<index_file, thread_vars, lock_vars, hold_vars>>
    /\ UNCHANGED <<compact_vars, observed, wal_tail_vars, dir_vars, repl_vars, follow_vars>>

AppendNext ==
    \/ \E key \in Keys, value \in Values, outcome \in AppendOutcomes :
           put_on_disk(key, value, outcome)
    \/ \E key \in Keys : read_call(key)

AppendSpec == SeqInit /\ [][AppendNext]_vars

----------------------------------------------------------------------------
(* DirSpec: processes that open and close one data directory, one store     *)
(* instance in each.  Every file                                            *)
(* system call of _acquire_lock and _release_lock is one step.  lockfile is  *)
(* the content of .lock: NoPid when the file is absent, EmptyFile between    *)
(* open(path, 'w') and the write of the pid, else the pid written.           *)

Procs == 1..NumProcesses

Instances == 1..NumInstances

EmptyFile == -1

\* what the steps of the directory lock leave alone
outside_dir == <<store_vars, replayed, seq_vars, thread_vars, lock_vars, hold_vars, datafile_vars,
                 compact_vars, observed, wal_tail_vars, repl_vars, follow_vars, owner>>

DirInit ==
    /\ empty_store
    /\ kv = EmptyKV
    /\ last_act = "open"
    /\ last_ret = "None"
    /\ exp_ret = "None"
    /\ idle_threads
    /\ idle_lock
    /\ idle_hold
    /\ idle_datafile
    /\ idle_compactor
    /\ observed = NoRead
    /\ idle_wal_tail
    /\ idle_repl
    /\ idle_follow
    /\ lockfile = NoPid
    /\ ppc = [p \in Procs |-> "closed"]
    /\ seen_pid = [p \in Procs |-> NoPid]
    /\ owner = [p \in Procs |-> p]

\* _is_process_running(pid)
is_process_running(pid) == \E q \in DOMAIN ppc : owner[q] = pid /\ ppc[q] # "dead"

\* _acquire_lock: if self.lockfile_path.exists()
lock_exists(p) ==
    /\ ppc[p] \in {"closed", "refused"}
    /\ ppc' = [ppc EXCEPT ![p] = IF lockfile # NoPid THEN "read" ELSE "create"]
    /\ seen_pid' = [seen_pid EXCEPT ![p] = NoPid]
    /\ UNCHANGED lockfile
    /\ UNCHANGED outside_dir

\* _acquire_lock: pid = int(f.read().strip()); IOError when the file is gone,
\* ValueError when it is empty; return when the pid is the caller's own
lock_read_pid(p) ==
    /\ ppc[p] = "read"
    /\ IF lockfile \in {NoPid, EmptyFile}
       THEN /\ ppc' = [ppc EXCEPT ![p] = "unlink_invalid"]
            /\ UNCHANGED seen_pid
       ELSE /\ seen_pid' = [seen_pid EXCEPT ![p] = lockfile]
            /\ ppc' = [ppc EXCEPT ![p] = IF lockfile = owner[p] THEN "open" ELSE "probe"]
    /\ UNCHANGED lockfile
    /\ UNCHANGED outside_dir

\* _acquire_lock: if self._is_process_running(pid): raise
\* DataDirectoryLockError, else the lock is stale
lock_probe(p) ==
    /\ ppc[p] = "probe"
    /\ ppc' = [ppc EXCEPT ![p] = IF is_process_running(seen_pid[p])
                                 THEN "refused" ELSE "unlink_stale"]
    /\ UNCHANGED <<lockfile, seen_pid>>
    /\ UNCHANGED outside_dir

\* _acquire_lock: unlink of the stale lock; FileNotFoundError is an IOError
\* and enters the inner except clause
lock_unlink_stale(p) ==
    /\ ppc[p] = "unlink_stale"
    /\ IF lockfile = NoPid
       THEN /\ ppc' = [ppc EXCEPT ![p] = "unlink_invalid"]
            /\ UNCHANGED lockfile
       ELSE /\ lockfile' = NoPid
            /\ ppc' = [ppc EXCEPT ![p] = "create"]
    /\ UNCHANGED seen_pid
    /\ UNCHANGED outside_dir

\* _acquire_lock: unlink in the inner except clause; when it raises, the
\* outer except clause prints a warning and __init__ goes on without a lock
lock_unlink_invalid(p) ==
    /\ ppc[p] = "unlink_invalid"
    /\ IF lockfile = NoPid
       THEN /\ ppc' = [ppc EXCEPT ![p] = "open"]
            /\ UNCHANGED lockfile
       ELSE /\ lockfile' = NoPid
            /\ ppc' = [ppc EXCEPT ![p] = "create"]
    /\ UNCHANGED seen_pid
    /\ UNCHANGED outside_dir

\* _acquire_lock: open(self.lockfile_path, 'w') creates or truncates .lock
lock_create(p) ==
    /\ ppc[p] = "create"
    /\ lockfile' = EmptyFile
    /\ ppc' = [ppc EXCEPT ![p] = "write_pid"]
    /\ UNCHANGED seen_pid
    /\ UNCHANGED outside_dir

\* _acquire_lock: f.write(str(os.getpid())) reaches the file; __init__ goes on
lock_write_pid(p) ==
    /\ ppc[p] = "write_pid"
    /\ lockfile' = owner[p]
    /\ ppc' = [ppc EXCEPT ![p] = "open"]
    /\ UNCHANGED seen_pid
    /\ UNCHANGED outside_dir

\* close, _release_lock: if self.lockfile_path.exists()
release_exists(p) ==
    /\ ppc[p] = "open"
    /\ ppc' = [ppc EXCEPT ![p] = IF lockfile # NoPid THEN "release_unlink" ELSE "closed"]
    /\ UNCHANGED <<lockfile, seen_pid>>
    /\ UNCHANGED outside_dir

\* _release_lock: unlink, whatever pid the file names; an exception is
\* caught and printed
release_unlink(p) ==
    /\ ppc[p] = "release_unlink"
    /\ lockfile' = NoPid
    /\ ppc' = [ppc EXCEPT ![p] = "closed"]
    /\ UNCHANGED seen_pid
    /\ UNCHANGED outside_dir

\* the process of p is killed, and every store instance in it is gone;
\* .lock stays as it is
kill_process(p) ==
    /\ ppc[p] # "dead"
    /\ ppc' = [q \in DOMAIN ppc |-> IF owner[q] = owner[p] THEN "dead" ELSE ppc[q]]
    /\ UNCHANGED <<lockfile, seen_pid>>
    /\ UNCHANGED outside_dir

DirNext ==
    \E p \in Procs :
        \/ lock_exists(p)
        \/ lock_read_pid(p)
        \/ lock_probe(p)
        \/ lock_unlink_stale(p)
        \/ lock_unlink_invalid(p)
        \/ lock_create(p)
        \/ lock_write_pid(p)
        \/ release_exists(p)
        \/ release_unlink(p)
        \/ kill_process(p)

DirSpec == DirInit /\ [][DirNext]_vars

\* SameProcSpec: the store instances of one process, which opens and closes
\* the same data directory several times
SameProcInit ==
    /\ empty_store
    /\ kv = EmptyKV
    /\ last_act = "open"
    /\ last_ret = "None"
    /\ exp_ret = "None"
    /\ idle_threads
    /\ idle_lock
    /\ idle_hold
    /\ idle_datafile
    /\ idle_compactor
    /\ observed = NoRead
    /\ idle_wal_tail
    /\ idle_repl
    /\ idle_follow
    /\ lockfile = NoPid
    /\ ppc = [p \in Instances |-> "closed"]
    /\ seen_pid = [p \in Instances |-> NoPid]
    /\ owner = [p \in Instances |-> 1]

\* (a pid read from .lock is the process's own, so _acquire_lock never
\* probes another process here)
SameProcNext ==
    \E p \in Instances :
        \/ lock_exists(p)
        \/ lock_read_pid(p)
        \/ lock_unlink_invalid(p)
        \/ lock_create(p)
        \/ lock_write_pid(p)
        \/ release_exists(p)
        \/ release_unlink(p)

SameProcSpec == SameProcInit /\ [][SameProcNext]_vars

----------------------------------------------------------------------------
(* WalSpec: the WAL file across crashes.  wal holds the complete entries of  *)
(* the file; wal_tail tells what a crash in the middle of log left after     *)
(* them: "none", "prefix" (1 to 3 bytes of a length prefix) or "payload" (a  *)
(* length prefix and fewer payload bytes than it announces).                 *)

TornTails == {"prefix", "payload"}

\* WAL.replay on the file: struct.unpack raises on a length prefix of fewer
\* than 4 bytes, pickle.loads raises on a truncated payload
replay_file(w, tail) ==
    IF tail = "none"
    THEN [raised |-> FALSE, entries |-> replay(w)]
    ELSE [raised |-> TRUE, entries |-> <<>>]

\* what the steps on the WAL file leave alone
outside_wal == <<seq_vars, thread_vars, lock_vars, hold_vars, datafile_vars, compact_vars, observed,
                 dir_vars, repl_vars, follow_vars>>

WalInit ==
    /\ empty_store
    /\ kv = EmptyKV
    /\ last_act = "open"
    /\ last_ret = "None"
    /\ exp_ret = "None"
    /\ idle_threads
    /\ idle_lock
    /\ idle_hold
    /\ idle_datafile
    /\ idle_aux

\* WAL.log writes a complete entry
wal_log(operation, key, value) ==
    /\ wal_tail = "none"
    /\ Len(wal) < MaxWal
    /\ wal' = log(wal, operation, key, value)
    /\ UNCHANGED <<data, index, index_file, replayed, wal_tail, replay_out>>
    /\ UNCHANGED outside_wal

\* the process dies inside WAL.log, after a part of length + serialized
\* reached the file
crash_in_log(tail) ==
    /\ wal_tail = "none"
    /\ wal_tail' = tail
    /\ UNCHANGED <<wal, data, index, index_file, replayed, replay_out>>
    /\ UNCHANGED outside_wal

\* WAL.replay, called by _recover when the directory is opened again; an
\* exception leaves __init__ and the store does not open
wal_replay ==
    /\ replay_out' = replay_file(wal, wal_tail)
    /\ UNCHANGED <<wal, data, index, index_file, replayed, wal_tail>>
    /\ UNCHANGED outside_wal

WalNext ==
    \/ \E key \in Keys, value \in Values : wal_log("put", key, value)
    \/ \E key \in Keys : wal_log("delete", key, None)
    \/ \E tail \in TornTails : crash_in_log(tail)
    \/ wal_replay

WalSpec == WalInit /\ [][WalNext]_vars

----------------------------------------------------------------------------
(* ReplSpec: the Replicator in async mode: callers of _enqueue_operation and *)
(* the worker threads around Replicator.queue = Queue(maxsize=queue_size).   *)

num_workers == 2

Workers == 1..num_workers

\* ReplicationOperation(op='put', ...), with its retry_count
NewOp == [op |-> "put", retry_count |-> 0]

NoOp == [op |-> "none", retry_count |-> 0]

\* a queue that is never full
queue_full_never(q, maxsize) == FALSE

\* Queue.full for Queue(maxsize): a maxsize of 0 or less is no limit
queue_full(q, maxsize) == maxsize > 0 /\ Len(q) >= maxsize

\* Queue.put_nowait: raises Full on a full queue
put_nowait(q, maxsize, op) ==
    IF queue_full(q, maxsize)
    THEN [raised |-> TRUE, queue |-> q]
    ELSE [raised |-> FALSE, queue |-> Append(q, op)]

\* what the steps of the Replicator leave alone
outside_repl == <<store_vars, replayed, seq_vars, thread_vars, lock_vars, hold_vars, datafile_vars,
                  compact_vars, observed, wal_tail_vars, dir_vars, follow_vars>>

ReplInit ==
    /\ empty_store
    /\ kv = EmptyKV
    /\ last_act = "open"
    /\ last_ret = "None"
    /\ exp_ret = "None"
    /\ idle_threads
    /\ idle_lock
    /\ idle_hold
    /\ idle_datafile
    /\ idle_compactor
    /\ observed = NoRead
    /\ idle_wal_tail
    /\ idle_dir
    /\ idle_follow
    /\ queue = <<>>
    /\ queue_size \in 0..MaxQueue
    /\ total_operations = 0
    /\ dropped_operations = 0
    /\ enq = [t \in Threads |-> [pc |-> "idle", ret |-> "None"]]
    /\ in_flight = [w \in Workers |-> NoOp]

\* _enqueue_operation: with self.stats_lock: self.total_operations += 1
enqueue_count(t) ==
    /\ enq[t].pc = "idle"
    /\ total_operations < MaxOps
    /\ total_operations' = total_operations + 1
    /\ enq' = [enq EXCEPT ![t] = [pc |-> "put", ret |-> "None"]]
    /\ UNCHANGED <<queue, queue_size, dropped_operations, in_flight>>
    /\ UNCHANGED outside_repl

\* _enqueue_operation: self.queue.put_nowait(op); return True, or an
\* exception enters the except clause
enqueue_put(t) ==
    /\ enq[t].pc = "put"
    /\ LET r == put_nowait(queue, queue_size, NewOp)
       IN  /\ queue' = r.queue
           /\ enq' = [enq EXCEPT ![t] = IF r.raised
                                        THEN [pc |-> "drop", ret |-> "None"]
                                        ELSE [pc |-> "idle", ret |-> "True"]]
    /\ UNCHANGED <<queue_size, total_operations, dropped_operations, in_flight>>
    /\ UNCHANGED outside_repl

\* _enqueue_operation, the except clause: with self.stats_lock:
\* self.dropped_operations += 1; return False
enqueue_drop(t) ==
    /\ enq[t].pc = "drop"
    /\ dropped_operations' = dropped_operations + 1
    /\ enq' = [enq EXCEPT ![t] = [pc |-> "idle", ret |-> "False"]]
    /\ UNCHANGED <<queue, queue_size, total_operations, in_flight>>
    /\ UNCHANGED outside_repl

\* _worker_loop: op = self.queue.get(timeout=1)
worker_get(w) ==
    /\ in_flight[w] = NoOp
    /\ queue # <<>>
    /\ in_flight' = [in_flight EXCEPT ![w] = Head(queue)]
    /\ queue' = Tail(queue)
    /\ UNCHANGED <<queue_size, total_operations, dropped_operations, enq>>
    /\ UNCHANGED outside_repl

\* the ways a round of _replicate_to_all ends: a replica took the operation,
\* every healthy replica failed, or there was no healthy replica
Outcomes == {"success", "failed", "no_healthy"}

\* a round that puts a failed operation back without counting the retry
worker_replicate_uncounted(w, outcome) ==
    /\ in_flight[w] # NoOp
    /\ LET op == in_flight[w]
           r == put_nowait(queue, queue_size, op)
       IN  queue' = IF outcome = "failed" /\ op.retry_count < MaxRetries
                    THEN r.queue ELSE queue
    /\ in_flight' = [in_flight EXCEPT ![w] = NoOp]
    /\ UNCHANGED <<queue_size, total_operations, dropped_operations, enq>>
    /\ UNCHANGED outside_repl

\* _worker_loop: self._replicate_to_all(op); when every healthy replica
\* failed and the operation has retries left it is put back with
\* put_nowait, and given up when the queue is full; with no healthy replica
\* it is not put back
worker_replicate(w, outcome) ==
    /\ in_flight[w] # NoOp
    /\ LET op == in_flight[w]
           r == put_nowait(queue, queue_size,
                           [op |-> op.op, retry_count |-> op.retry_count + 1])
       IN  queue' = IF outcome = "failed" /\ op.retry_count < MaxRetries
                    THEN r.queue ELSE queue
    /\ in_flight' = [in_flight EXCEPT ![w] = NoOp]
    /\ UNCHANGED <<queue_size, total_operations, dropped_operations, enq>>
    /\ UNCHANGED outside_repl

ReplNext ==
    \/ \E t \in Threads : enqueue_count(t)
    \/ \E t \in Threads : enqueue_put(t)
    \/ \E t \in Threads : enqueue_drop(t)
    \/ \E w \in Workers : worker_get(w)
    \/ \E w \in Workers, outcome \in Outcomes : worker_replicate(w, outcome)

ReplSpec == ReplInit /\ [][ReplNext]_vars

\* _worker_loop: while self.running: each worker thread keeps taking its
\* turn, whereas no caller is obliged to enqueue
worker_step(w) ==
    \/ worker_get(w)
    \/ \E outcome \in Outcomes : worker_replicate(w, outcome)

ReplFairness == \A w \in Workers : WF_vars(worker_step(w))

ReplFairSpec == ReplSpec /\ ReplFairness

----------------------------------------------------------------------------
(* LoopSpec: the cycles of the background threads (the checkpoint thread,  *)
(* the compaction thread, the Replicator's workers) on a store after at    *)
(* most two puts, each cycle ending normally or with an exception: a       *)
(* failing open() in Index.save or WAL.truncate, a failing                 *)
(* DataFile(temp_path) in _compact, an exception out of _replicate_to_all. *)
(* One caller enqueues; Config.COMPACTION_MIN_FILE_SIZE is 0 and           *)
(* Config.COMPACTION_THRESHOLD is 0.3.                                     *)

CycleOutcomes == {"returns", "raises"}

LoopInit ==
    /\ \/ empty_store
       \/ \E key \in Keys, value \in Values :
              \E s \in {put_apply(EmptyIndex, <<>>, key, value)} :
                  /\ wal = log(<<>>, "put", key, value)
                  /\ data = s.data
                  /\ index = s.index
                  /\ index_file = EmptyIndex
                  /\ replayed = 0
       \/ \E key \in Keys, old \in Values, value \in Values :
              \E s \in {put_apply(EmptyIndex, <<>>, key, old)} :
                  \E s2 \in {put_apply(s.index, s.data, key, value)} :
                      /\ wal = log(log(<<>>, "put", key, old), "put", key, value)
                      /\ data = s2.data
                      /\ index = s2.index
                      /\ index_file = EmptyIndex
                      /\ replayed = 0
    /\ kv = [k \in DOMAIN index |-> datafile_read(data, index[k][1]).value]
    /\ last_act = "open"
    /\ last_ret = "None"
    /\ exp_ret = "None"
    /\ idle_threads
    /\ idle_lock
    /\ idle_hold
    /\ idle_datafile
    /\ idle_compactor
    /\ observed = NoRead
    /\ idle_wal_tail
    /\ idle_dir
    /\ idle_follow
    /\ queue = <<>>
    /\ queue_size = 1
    /\ total_operations = 0
    /\ dropped_operations = 0
    /\ enq = [t \in Threads |-> [pc |-> "idle", ret |-> "None"]]
    /\ in_flight = [w \in Workers |-> NoOp]

\* _checkpoint_loop: with WriteLock(self.rwlock): self.index.save(); an
\* exception leaves the while loop and ends the thread
checkpoint_loop_save(outcome) ==
    /\ ckpt_pc = "wait"
    /\ IF outcome = "raises"
       THEN /\ ckpt_pc' = "ended"
            /\ UNCHANGED index_file
       ELSE /\ ckpt_pc' = "truncate"
            /\ index_file' = index
    /\ UNCHANGED <<wal, data, index, replayed, seq_vars>>
    /\ UNCHANGED <<pc, arg, ret, budget, present0, lock_vars, aux_vars>>

\* _checkpoint_loop: with self.wal_lock: self.wal.truncate(); an exception
\* leaves the while loop and ends the thread
checkpoint_loop_truncate(outcome) ==
    /\ ckpt_pc = "truncate"
    /\ IF outcome = "raises"
       THEN /\ ckpt_pc' = "ended"
            /\ UNCHANGED wal
       ELSE /\ ckpt_pc' = "wait"
            /\ wal' = truncate(wal)
    /\ UNCHANGED <<data, index, index_file, replayed, seq_vars>>
    /\ UNCHANGED <<pc, arg, ret, budget, present0, lock_vars, aux_vars>>

\* _compaction_loop: try: if self._should_compact(): self._compact()
\* except Exception: print; the loop goes on either way
compaction_loop_cycle(min_file_size, tenths, outcome) ==
    /\ cpc = "idle"
    /\ IF outcome = "raises" \/ ~should_compact(data, index, min_file_size, tenths)
       THEN UNCHANGED <<data, index, index_file>>
       ELSE LET c == compact_all(index, data)
            IN  /\ index' = c.index
                /\ data' = c.data
                /\ index_file' = IF c.saved THEN c.index ELSE index_file
    /\ cpc' = "idle"
    /\ UNCHANGED <<wal, replayed, seq_vars, thread_vars, lock_vars, hold_vars, datafile_vars>>
    /\ UNCHANGED <<index_snapshot, todo, tmp_datafile, tmp_index, compactions, pre_swap>>
    /\ UNCHANGED <<observed, wal_tail_vars, dir_vars, repl_vars, follow_vars>>

\* _worker_loop: except Exception as e: print; the operation taken from
\* the queue is gone and the loop goes on
worker_raises(w) ==
    /\ in_flight[w] # NoOp
    /\ in_flight' = [in_flight EXCEPT ![w] = NoOp]
    /\ UNCHANGED <<queue, queue_size, total_operations, dropped_operations, enq>>
    /\ UNCHANGED outside_repl

LoopNext ==
    \/ \E outcome \in CycleOutcomes : checkpoint_loop_save(outcome)
    \/ \E outcome \in CycleOutcomes : checkpoint_loop_truncate(outcome)
    \/ \E min_file_size \in {0}, tenths \in {3}, outcome \in CycleOutcomes :
           compaction_loop_cycle(min_file_size, tenths, outcome)
    \/ \E t \in {1} : enqueue_count(t) \/ enqueue_put(t) \/ enqueue_drop(t)
    \/ \E w \in Workers : worker_get(w)
    \/ \E w \in Workers : worker_raises(w)
    \/ \E w \in Workers, outcome \in Outcomes : worker_replicate(w, outcome)

LoopSpec == LoopInit /\ [][LoopNext]_vars

----------------------------------------------------------------------------
(* HealthSpec: the ReplicaManager's record of each follower under any        *)
(* sequence of mark_success and mark_failure calls; each call runs under     *)
(* ReplicaManager.lock and is one step.                                      *)

Followers == 1..NumFollowers

\* ReplicaNode(host, port) as add_replica builds it
NewNode == [is_healthy |-> TRUE, consecutive_failures |-> 0]

\* the node after mark_success
success_marked(n) == [is_healthy |-> TRUE, consecutive_failures |-> 0]

\* a mark_failure that marks the node unhealthy one failure late
failure_marked_late(n, maxf) ==
    LET c == n.consecutive_failures + 1
    IN  [is_healthy |-> IF c > maxf /\ n.is_healthy THEN FALSE ELSE n.is_healthy,
         consecutive_failures |-> c]

\* the node after mark_failure
failure_marked(n, maxf) ==
    LET c == n.consecutive_failures + 1
    IN  [is_healthy |-> IF c >= maxf /\ n.is_healthy THEN FALSE ELSE n.is_healthy,
         consecutive_failures |-> c]

\* what the calls of the ReplicaManager leave alone
outside_nodes == <<store_vars, replayed, seq_vars, thread_vars, lock_vars, hold_vars, datafile_vars,
                   compact_vars, observed, wal_tail_vars, dir_vars, repl_vars,
                   max_failures, fkv, mode, is_replica, round, down>>

HealthInit ==
    /\ empty_store
    /\ kv = EmptyKV
    /\ last_act = "open"
    /\ last_ret = "None"
    /\ exp_ret = "None"
    /\ idle_threads
    /\ idle_lock
    /\ idle_hold
    /\ idle_datafile
    /\ idle_compactor
    /\ observed = NoRead
    /\ idle_wal_tail
    /\ idle_dir
    /\ idle_repl
    /\ nodes = [f \in Followers |-> NewNode]
    /\ max_failures \in 0..MaxFailures
    /\ fkv = <<>>
    /\ mode = "none"
    /\ is_replica = FALSE
    /\ round = <<>>
    /\ down = {}

\* ReplicaManager.mark_success(replica)
mark_success(f) ==
    /\ nodes' = [nodes EXCEPT ![f] = success_marked(nodes[f])]
    /\ UNCHANGED outside_nodes

\* ReplicaManager.mark_failure(replica)
mark_failure(f) ==
    /\ nodes[f].consecutive_failures < MaxFailures + 2
    /\ nodes' = [nodes EXCEPT ![f] = failure_marked(nodes[f], max_failures)]
    /\ UNCHANGED outside_nodes

HealthNext ==
    \E f \in Followers :
        \/ mark_success(f)
        \/ mark_failure(f)

HealthSpec == HealthInit /\ [][HealthNext]_vars

----------------------------------------------------------------------------
(* The replication messages (replicator.py, network/protocol.py,            *)
(* network/server.py).  A message is the bytes                              *)
(* b'REPLICATE ' + sub + b' ' + body: sub is the subcommand and body the     *)
(* bytes the Replicator writes after it, the closing b'\n' included.         *)

SPACE == 32
NEWLINE == 10
BACKSLASH == 92

\* Config.BATCH_SEPARATOR = b'||'
BATCH_SEPARATOR == <<124, 124>>

\* the position of the first byte equal to c in b, or 0
RECURSIVE find_byte(_, _, _)
find_byte(b, c, i) ==
    IF i > Len(b) THEN 0
    ELSE IF b[i] = c THEN i
    ELSE find_byte(b, c, i + 1)

\* ConnectionHandler.handle: the message is the buffer up to the first
\* Config.MESSAGE_DELIMITER
first_message(buffer) == SubSeq(buffer, 1, find_byte(buffer, NEWLINE, 1) - 1)

\* bytes.split(b' ', 1)
split_space_once(b) ==
    LET i == find_byte(b, SPACE, 1)
    IN  IF i = 0 THEN <<b>>
        ELSE <<SubSeq(b, 1, i - 1), SubSeq(b, i + 1, Len(b))>>

\* the position of the first occurrence of the two bytes sep in b, or 0
RECURSIVE find_pair(_, _, _)
find_pair(b, sep, i) ==
    IF i + 1 > Len(b) THEN 0
    ELSE IF b[i] = sep[1] /\ b[i + 1] = sep[2] THEN i
    ELSE find_pair(b, sep, i + 1)

\* bytes.split(Config.BATCH_SEPARATOR)
RECURSIVE split_batch(_)
split_batch(b) ==
    LET i == find_pair(b, BATCH_SEPARATOR, 1)
    IN  IF i = 0 THEN <<b>>
        ELSE <<SubSeq(b, 1, i - 1)>> \o split_batch(SubSeq(b, i + 2, Len(b)))

\* Config.BATCH_SEPARATOR.join(items)
RECURSIVE join_batch(_)
join_batch(items) ==
    IF items = <<>> THEN <<>>
    ELSE IF Len(items) = 1 THEN items[1]
    ELSE items[1] \o BATCH_SEPARATOR \o join_batch(Tail(items))

\* bytes.replace of a two-byte pattern by one byte
RECURSIVE replace_pair(_, _, _)
replace_pair(b, pat, c) ==
    LET i == find_pair(b, pat, 1)
    IN  IF i = 0 THEN b
        ELSE SubSeq(b, 1, i - 1) \o <<c>> \o replace_pair(SubSeq(b, i + 2, Len(b)), pat, c)

\* bytes.replace of one byte by another
replace_byte(b, c, d) == [i \in 1..Len(b) |-> IF b[i] = c THEN d ELSE b[i]]

\* Protocol.unescape: the NUL byte stands in for the backslash
unescape(v) ==
    LET a == replace_pair(v, <<BACKSLASH, BACKSLASH>>, 0)
        n == replace_pair(a, <<BACKSLASH, 110>>, NEWLINE)
        r == replace_pair(n, <<BACKSLASH, 114>>, 13)
        t == replace_pair(r, <<BACKSLASH, 116>>, 9)
    IN  replace_byte(t, 0, BACKSLASH)

\* _replicate_to_replica: the command built for an operation
command(op) ==
    IF op.op = "put"
    THEN [sub |-> "PUT", body |-> op.key \o <<SPACE>> \o op.value \o <<NEWLINE>>]
    ELSE IF op.op = "delete"
    THEN [sub |-> "DELETE", body |-> op.key \o <<NEWLINE>>]
    ELSE [sub |-> "BATCHPUT",
          body |-> join_batch(op.keys) \o <<SPACE>> \o join_batch(op.values) \o <<NEWLINE>>]

\* Protocol._parse_replicate_command: message.split(b' ', 3) gives
\* b'REPLICATE', the subcommand and the body split at its first space
parse_replicate_command(sub, message_body) ==
    LET rest == split_space_once(message_body)
    IN  IF sub = "DELETE"
        THEN IF Len(rest) # 1
             THEN [raised |-> TRUE, key |-> None, value |-> None]
             ELSE [raised |-> FALSE, key |-> rest[1], value |-> None]
        ELSE IF Len(rest) # 2
             THEN [raised |-> TRUE, key |-> None, value |-> None]
             ELSE [raised |-> FALSE, key |-> rest[1], value |-> rest[2]]

\* KVStore.delete on a follower's store: False for an absent key
follower_delete(m, key) ==
    IF key \in DOMAIN m
    THEN [store |-> [k \in DOMAIN m \ {key} |-> m[k]], response |-> "OK"]
    ELSE [store |-> m, response |-> "ERROR"]

\* KVServer._handle_replicate_batchput
handle_replicate_batchput(m, key, value) ==
    LET keys == split_batch(key)
        values == split_batch(value)
    IN  IF Len(keys) # Len(values)
        THEN [store |-> m, response |-> "ERROR"]
        ELSE [store |-> kv_batch(m, keys, [i \in 1..Len(values) |-> unescape(values[i])]),
              response |-> "OK"]

\* KVServer._process_message on a follower whose store holds m, for the
\* REPLICATE message with subcommand sub that parse_command took apart as
\* c: the store after the message and the response, b'OK' or one that
\* begins b'ERROR'
process_message(m, sub, c) ==
    IF c.raised THEN [store |-> m, response |-> "ERROR"]
    ELSE IF sub = "PUT"
    THEN [store |-> kv_put(m, c.key, c.value), response |-> "OK"]
    ELSE IF sub = "DELETE" THEN follower_delete(m, c.key)
    ELSE handle_replicate_batchput(m, c.key, c.value)

----------------------------------------------------------------------------
(* PipeSpec: a store with its Replicator and its followers.  One client      *)
(* calls put, batch_put and delete; phase 3 of each call hands the operation *)
(* to _enqueue_operation; the worker threads and, in sync mode, the caller   *)
(* run _replicate_to_all, one follower per step.  A follower is a KVServer   *)
(* started as a replica, and fkv is what its store maps each key to.         *)

Clients == {1}

\* the dispatchers of _replicate_to_all: the workers, and the thread of a
\* client inside a sync-mode _enqueue_operation
Caller(t) == num_workers + t

Dispatchers == Workers \cup {Caller(t) : t \in Clients}

NoDispatch == [op |-> "none", key |-> None, value |-> None,
               keys |-> <<>>, values |-> <<>>, retry_count |-> 0]

IdleRound == [pc |-> "idle", replicas |-> <<>>, success_count |-> 0]

\* ReplicationOperation(op, key, value) or (op, keys, values) for the call
\* of thread t
new_op(t) ==
    IF pc[t] = "batch_put_phase3"
    THEN [op |-> "batch_put", key |-> None, value |-> None,
          keys |-> arg[t].key, values |-> arg[t].value, retry_count |-> 0]
    ELSE [op |-> IF pc[t] = "put_phase3" THEN "put" ELSE "delete",
          key |-> arg[t].key, value |-> arg[t].value,
          keys |-> <<>>, values |-> <<>>, retry_count |-> 0]

\* the followers of S in ascending order
RECURSIVE in_order(_)
in_order(S) ==
    IF S = {} THEN <<>>
    ELSE LET m == CHOOSE x \in S : \A y \in S : x <= y
         IN  <<m>> \o in_order(S \ {m})

\* ReplicaManager.get_healthy_replicas
get_healthy_replicas(ns) == in_order({f \in DOMAIN ns : ns[f].is_healthy})

\* _replicate_to_all up to its loop: with no healthy replica the round is
\* over at once, else the round goes through the replicas it found
round_begun(ns) ==
    LET replicas == get_healthy_replicas(ns)
    IN  IF replicas = <<>> THEN IdleRound
        ELSE [pc |-> "send", replicas |-> replicas, success_count |-> 0]

\* what the steps of the pipeline leave alone
outside_pipe == <<replayed, lock_vars, hold_vars, datafile_vars, compact_vars, observed, wal_tail_vars,
                  dir_vars, enq, queue_size, max_failures, mode, is_replica, down,
                  ckpt_pc, present0, last_act, last_ret, exp_ret>>

PipeInit ==
    /\ empty_store
    /\ kv = EmptyKV
    /\ last_act = "open"
    /\ last_ret = "None"
    /\ exp_ret = "None"
    /\ pc = [t \in Clients |-> "idle"]
    /\ arg = [t \in Clients |-> [key |-> None, value |-> None]]
    /\ ret = [t \in Clients |-> "None"]
    /\ budget = [t \in Clients |-> MaxCalls]
    /\ ckpt_pc = "wait"
    /\ present0 = {}
    /\ idle_lock
    /\ idle_hold
    /\ idle_datafile
    /\ idle_compactor
    /\ observed = NoRead
    /\ idle_wal_tail
    /\ idle_dir
    /\ queue = <<>>
    /\ queue_size \in 0..MaxQueue
    /\ total_operations = 0
    /\ dropped_operations = 0
    /\ enq = <<>>
    /\ in_flight = [d \in Dispatchers |-> NoDispatch]
    /\ round = [d \in Dispatchers |-> IdleRound]
    /\ \E n \in 0..NumFollowers :
           /\ nodes = [f \in 1..n |-> NewNode]
           /\ fkv = [f \in 1..n |-> EmptyKV]
           /\ down \in SUBSET (1..n)
    /\ max_failures \in 1..MaxFailures
    /\ \/ is_replica = FALSE /\ mode \in {"async", "sync", "none"}
       \/ is_replica = TRUE /\ mode = "none"

\* a phase 3 that hands the caller what _enqueue_operation returned
phase3_async_surfaces(t) ==
    /\ pc[t] \in {"put_phase3", "delete_phase3", "batch_put_phase3"}
    /\ mode # "sync"
    /\ total_operations' = total_operations + 1
    /\ LET r == put_nowait(queue, queue_size, new_op(t))
       IN  /\ queue' = r.queue
           /\ dropped_operations' = dropped_operations + (IF r.raised THEN 1 ELSE 0)
           /\ ret' = [ret EXCEPT ![t] = IF r.raised THEN "False" ELSE "True"]
    /\ pc' = [pc EXCEPT ![t] = "idle"]
    /\ UNCHANGED <<store_vars, kv, arg, budget, in_flight, round, nodes, fkv>>
    /\ UNCHANGED outside_pipe

\* phase 3 in async mode: _enqueue_operation counts the operation, puts it
\* on the queue or counts a drop; the call returns True either way
phase3_async(t) ==
    /\ pc[t] \in {"put_phase3", "delete_phase3", "batch_put_phase3"}
    /\ mode # "sync"
    /\ total_operations' = total_operations + 1
    /\ LET r == put_nowait(queue, queue_size, new_op(t))
       IN  /\ queue' = r.queue
           /\ dropped_operations' = dropped_operations + (IF r.raised THEN 1 ELSE 0)
    /\ pc' = [pc EXCEPT ![t] = "idle"]
    /\ ret' = [ret EXCEPT ![t] = "True"]
    /\ UNCHANGED <<store_vars, kv, arg, budget, in_flight, round, nodes, fkv>>
    /\ UNCHANGED outside_pipe

\* phase 3 in sync mode: _enqueue_operation counts the operation and runs
\* _replicate_to_all on the caller's thread; with no healthy replica the
\* call returns True at once
phase3_sync(t) ==
    /\ pc[t] \in {"put_phase3", "delete_phase3", "batch_put_phase3"}
    /\ mode = "sync"
    /\ total_operations' = total_operations + 1
    /\ LET r == round_begun(nodes)
       IN  /\ round' = [round EXCEPT ![Caller(t)] = r]
           /\ in_flight' = [in_flight EXCEPT ![Caller(t)] =
                                IF r.pc = "idle" THEN NoDispatch ELSE new_op(t)]
           /\ pc' = [pc EXCEPT ![t] = IF r.pc = "idle" THEN "idle" ELSE "phase3_sync"]
           /\ ret' = [ret EXCEPT ![t] = IF r.pc = "idle" THEN "True" ELSE "None"]
    /\ UNCHANGED <<store_vars, kv, arg, budget, queue, dropped_operations, nodes, fkv>>
    /\ UNCHANGED outside_pipe

\* _worker_loop: op = self.queue.get(timeout=1), and _replicate_to_all up to
\* its loop: with no healthy replica the operation is gone
worker_take(w) ==
    /\ round[w].pc = "idle"
    /\ queue # <<>>
    /\ queue' = Tail(queue)
    /\ LET r == round_begun(nodes)
       IN  /\ round' = [round EXCEPT ![w] = r]
           /\ in_flight' = [in_flight EXCEPT ![w] =
                                IF r.pc = "idle" THEN NoDispatch ELSE Head(queue)]
    /\ UNCHANGED <<store_vars, kv, thread_vars, total_operations, dropped_operations,
                   nodes, fkv>>
    /\ UNCHANGED <<replayed, lock_vars, hold_vars, datafile_vars, compact_vars, observed, wal_tail_vars,
                   dir_vars, enq, queue_size, max_failures, mode, is_replica, down,
                   last_act, last_ret, exp_ret>>

\* _replicate_to_replica for the next replica of the round: the connection
\* fails, or the follower processes the command and answers r; an answer
\* that begins b'OK' is a success, anything else a failure
replicate_to_replica(d) ==
    /\ round[d].pc = "send"
    /\ \E f \in {Head(round[d].replicas)} :
       \E cmd \in {command(in_flight[d])} :
       \E message \in {first_message(cmd.body)} :
       \E c \in {parse_replicate_command(cmd.sub, message)} :
       \E r \in {process_message(fkv[f], cmd.sub, c)} :
       \E ok \in {f \notin down /\ r.response = "OK"} :
           /\ fkv' = IF f \in down THEN fkv ELSE [fkv EXCEPT ![f] = r.store]
           /\ nodes' = [nodes EXCEPT ![f] = IF ok THEN success_marked(nodes[f])
                                            ELSE failure_marked(nodes[f], max_failures)]
           /\ round' = [round EXCEPT ![d] =
                            [pc |-> IF Len(round[d].replicas) = 1 THEN "end" ELSE "send",
                             replicas |-> Tail(round[d].replicas),
                             success_count |-> round[d].success_count + (IF ok THEN 1 ELSE 0)]]
    /\ UNCHANGED <<store_vars, kv, thread_vars, queue, total_operations,
                   dropped_operations, in_flight>>
    /\ UNCHANGED <<replayed, lock_vars, hold_vars, datafile_vars, compact_vars, observed, wal_tail_vars,
                   dir_vars, enq, queue_size, max_failures, mode, is_replica, down,
                   last_act, last_ret, exp_ret>>

\* the queue after the end of a round of op with success_count successes:
\* with none and retries left the operation goes back with put_nowait, and
\* is given up when the queue is full
requeued(q, maxsize, op, success_count) ==
    IF success_count = 0 /\ op.retry_count < MaxRetries
    THEN put_nowait(q, maxsize, [op EXCEPT !.retry_count = @ + 1]).queue
    ELSE q

\* _replicate_to_all after its loop; a sync-mode caller then returns True
\* from its put, batch_put or delete
replicate_end(d) ==
    /\ round[d].pc = "end"
    /\ queue' = requeued(queue, queue_size, in_flight[d], round[d].success_count)
    /\ round' = [round EXCEPT ![d] = IdleRound]
    /\ in_flight' = [in_flight EXCEPT ![d] = NoDispatch]
    /\ pc' = [t \in DOMAIN pc |-> IF d = Caller(t) THEN "idle" ELSE pc[t]]
    /\ ret' = [t \in DOMAIN ret |-> IF d = Caller(t) THEN "True" ELSE ret[t]]
    /\ UNCHANGED <<store_vars, kv, arg, budget, total_operations, dropped_operations,
                   nodes, fkv>>
    /\ UNCHANGED outside_pipe

MaxPipeBatch == 1

PipeNext ==
    \/ \E t \in Clients, key \in Keys, value \in Values : put_phase1(t, key, value)
    \/ \E t \in Clients : put_phase2(t)
    \/ \E t \in Clients, key \in Keys : delete_phase0(t, key)
    \/ \E t \in Clients : delete_phase1(t)
    \/ \E t \in Clients : delete_phase2(t)
    \/ \E t \in Clients, m \in 0..MaxPipeBatch :
           \E keys \in [1..m -> Keys], values \in [1..m -> Values] :
               batch_put_phase1(t, keys, values)
    \/ \E t \in Clients : batch_put_phase2(t)
    \/ \E t \in Clients : phase3_async(t)
    \/ \E t \in Clients : phase3_sync(t)
    \/ \E w \in Workers : worker_take(w)
    \/ \E d \in Dispatchers : replicate_to_replica(d)
    \/ \E d \in Dispatchers : replicate_end(d)

PipeSpec == PipeInit /\ [][PipeNext]_vars

\* the steps that go on without a new call of the client: a call that has
\* started runs to its end, a worker takes what is on the queue, a dispatch
\* round that has begun goes on to its end
PipeProgress ==
    \/ \E t \in Clients : put_phase2(t) \/ delete_phase1(t) \/ delete_phase2(t)
    \/ \E t \in Clients : batch_put_phase2(t) \/ phase3_async(t) \/ phase3_sync(t)
    \/ \E w \in Workers : worker_take(w)
    \/ \E d \in Dispatchers : replicate_to_replica(d) \/ replicate_end(d)

\* PipeFairSpec: the threads are scheduled (_worker_loop is a
\* `while self.running` loop on a daemon thread): while one of these steps
\* is possible one of them is taken; the client is free never to call again
PipeFairness == WF_vars(PipeProgress)

PipeFairSpec == PipeInit /\ [][PipeNext]_vars /\ PipeFairness

----------------------------------------------------------------------------
(* SwapSpec: one client, the checkpoint thread and the compaction thread,   *)
(* and a process that is killed inside the WriteLock block of _compact and  *)
(* opened again.                                                             *)

\* where the kill falls in the swap: after os.rename(old_path, backup_path),
\* when data.db is gone and DataFile(path) creates it empty on the next
\* open; or after os.rename(temp_path, old_path) and before index.save(),
\* when data.db is the compacted file and index.db the snapshot saved last
CrashPoints == {"old_renamed", "new_renamed"}

\* data.db as a kill at point leaves it
swap_crashed_file(point) ==
    IF point = "old_renamed" THEN <<>>
    ELSE compact_reconcile(key_order(DOMAIN index), index, index_snapshot,
                           data, tmp_datafile, tmp_index).file

SwapInit ==
    /\ empty_store
    /\ kv = EmptyKV
    /\ last_act = "open"
    /\ last_ret = "None"
    /\ exp_ret = "None"
    /\ pc = [t \in Clients |-> "idle"]
    /\ arg = [t \in Clients |-> [key |-> None, value |-> None]]
    /\ ret = [t \in Clients |-> "None"]
    /\ budget = [t \in Clients |-> MaxCalls]
    /\ ckpt_pc = "wait"
    /\ present0 = {}
    /\ idle_lock
    /\ idle_hold
    /\ idle_datafile
    /\ cpc = "idle"
    /\ index_snapshot = EmptyIndex
    /\ todo = <<>>
    /\ tmp_datafile = <<>>
    /\ tmp_index = EmptyIndex
    /\ compactions = MaxCompactions
    /\ pre_swap = NoSwap
    /\ observed = NoRead
    /\ idle_wal_tail
    /\ idle_dir
    /\ idle_repl
    /\ idle_follow

\* the process is killed inside the swap of _compact, at point, and a new
\* process opens the directory: KVStore.__init__ loads index.db and replays
\* the WAL over the data.db it finds
crash_in_swap(point) ==
    /\ cpc = "swap"
    /\ Len(swap_crashed_file(point)) + num_puts(wal) <= MaxRecords
    /\ LET o == open(wal, swap_crashed_file(point), index_file)
       IN  /\ index' = o.index
           /\ data' = o.data
           /\ index_file' = o.index_file
           /\ wal' = o.wal
           /\ kv' = [k \in DOMAIN o.index |-> read_in(o.index, o.data, k)]
    /\ pc' = [t \in DOMAIN pc |-> "idle"]
    /\ ret' = [t \in DOMAIN ret |-> "None"]
    /\ ckpt_pc' = "wait"
    /\ cpc' = "idle"
    /\ index_snapshot' = EmptyIndex
    /\ todo' = <<>>
    /\ tmp_datafile' = <<>>
    /\ tmp_index' = EmptyIndex
    /\ pre_swap' = NoSwap
    /\ UNCHANGED <<replayed, arg, budget, present0, compactions>>
    /\ UNCHANGED <<last_act, last_ret, exp_ret, lock_vars, hold_vars, datafile_vars>>
    /\ UNCHANGED <<observed, wal_tail_vars, dir_vars, repl_vars, follow_vars>>

SwapNext ==
    \/ \E t \in Clients, key \in Keys, value \in Values : put_phase1(t, key, value)
    \/ \E t \in Clients : put_phase2(t)
    \/ \E t \in Clients, key \in Keys : delete_phase0(t, key)
    \/ \E t \in Clients : delete_phase1(t)
    \/ \E t \in Clients : delete_phase2(t)
    \/ checkpoint_save
    \/ checkpoint_truncate
    \/ CompactorNext
    \/ \E point \in CrashPoints : crash_in_swap(point)

SwapSpec == SwapInit /\ [][SwapNext]_vars

----------------------------------------------------------------------------
(* FineSpec: the client threads, the checkpoint thread and a reader, with   *)
(* the store's two locks held explicitly.  Taking a lock is one step, every *)
(* turn of a loop inside a lock block is one step, and leaving the block is *)
(* one step.  wal_lock is the threading.Lock of KVStore; readers and writer *)
(* are the fields of its RWLock, whose acquire methods test and set them    *)
(* under RWLock._lock.                                                      *)

Checkpointer == NumThreads + 1

\* the log entries thread t has still to write in its wal_lock block
pending_logs(t) ==
    IF pc[t] \in {"check_wait", "check_held", "wal_wait"} THEN Len(arg[t].key)
    ELSE IF pc[t] = "wal_held" THEN Len(arg[t].key) - loop[t]
    ELSE 0

\* the records thread t has still to append in its WriteLock block
pending_appends(t) ==
    IF arg[t].op = "delete" THEN 0
    ELSE IF pc[t] \in {"wal_wait", "wal_held", "write_wait"} THEN Len(arg[t].key)
    ELSE IF pc[t] = "write_held" THEN Len(arg[t].key) - loop[t]
    ELSE 0

RECURSIVE sum_over(_, _)
sum_over(f, S) ==
    IF S = {} THEN 0
    ELSE LET x == CHOOSE y \in S : TRUE IN f[x] + sum_over(f, S \ {x})

FineInit ==
    /\ empty_store
    /\ kv = EmptyKV
    /\ last_act = "open"
    /\ last_ret = "None"
    /\ exp_ret = "None"
    /\ pc = [t \in Threads |-> "idle"]
    /\ arg = [t \in Threads |-> [op |-> "none", key |-> <<>>, value |-> <<>>]]
    /\ ret = [t \in Threads |-> "None"]
    /\ budget = [t \in Threads |-> MaxFineCalls]
    /\ ckpt_pc = "wait"
    /\ present0 = {}
    /\ idle_lock
    /\ wal_lock = NoThread
    /\ loop = [t \in Threads |-> 0]
    /\ scan = NoScan
    /\ idle_datafile
    /\ idle_compactor
    /\ observed = NoRead
    /\ idle_wal_tail
    /\ idle_dir
    /\ idle_repl
    /\ idle_follow

outside_fine == <<replayed, last_act, last_ret, exp_ret, present0, lpc, ahead,
                  compact_vars, observed, wal_tail_vars, dir_vars, repl_vars,
                  follow_vars, datafile_vars>>

\* a client thread calls put (one pair), batch_put (the lists, of one
\* length) or delete (one key)
fine_call(t, op, keys, values) ==
    /\ pc[t] = "idle"
    /\ budget[t] > 0
    /\ Len(wal) + sum_over([u \in Threads |-> pending_logs(u)], Threads) + Len(keys) <= MaxWal
    /\ Len(data) + sum_over([u \in Threads |-> pending_appends(u)], Threads)
           + (IF op = "delete" THEN 0 ELSE Len(keys)) <= MaxRecords
    /\ budget' = [budget EXCEPT ![t] = @ - 1]
    /\ arg' = [arg EXCEPT ![t] = [op |-> op, key |-> keys, value |-> values]]
    /\ ret' = [ret EXCEPT ![t] = "None"]
    /\ pc' = [pc EXCEPT ![t] = IF op = "delete" THEN "check_wait" ELSE "wal_wait"]
    /\ UNCHANGED <<store_vars, kv, ckpt_pc, readers, writer, hold_vars, datafile_vars, outside_fine>>

\* delete: with ReadLock(self.rwlock), entered
check_acquire(t) ==
    /\ pc[t] = "check_wait"
    /\ ~read_must_wait
    /\ readers' = readers + 1
    /\ pc' = [pc EXCEPT ![t] = "check_held"]
    /\ UNCHANGED <<store_vars, kv, arg, ret, budget, ckpt_pc, writer, hold_vars, datafile_vars, outside_fine>>

\* delete: if self.index.get(key) is None: return False; the block is left
check_release(t) ==
    /\ pc[t] = "check_held"
    /\ readers' = readers - 1
    /\ IF index_get(index, arg[t].key[1]) = None
       THEN /\ pc' = [pc EXCEPT ![t] = "idle"]
            /\ ret' = [ret EXCEPT ![t] = "False"]
       ELSE /\ pc' = [pc EXCEPT ![t] = "wal_wait"]
            /\ UNCHANGED ret
    /\ UNCHANGED <<store_vars, kv, arg, budget, ckpt_pc, writer, hold_vars, datafile_vars, outside_fine>>

\* with self.wal_lock, entered
wal_acquire(t) ==
    /\ pc[t] = "wal_wait"
    /\ wal_lock = NoThread
    /\ wal_lock' = t
    /\ loop' = [loop EXCEPT ![t] = 0]
    /\ pc' = [pc EXCEPT ![t] = "wal_held"]
    /\ UNCHANGED <<store_vars, kv, arg, ret, budget, ckpt_pc, readers, writer, scan, outside_fine>>

\* one self.wal.log(...) inside the wal_lock block: the only one of put and
\* of delete, one turn of batch_put's loop
wal_log_turn(t) ==
    /\ pc[t] = "wal_held"
    /\ loop[t] < Len(arg[t].key)
    /\ wal' = IF arg[t].op = "delete"
              THEN log(wal, "delete", arg[t].key[loop[t] + 1], None)
              ELSE log(wal, "put", arg[t].key[loop[t] + 1], arg[t].value[loop[t] + 1])
    /\ loop' = [loop EXCEPT ![t] = @ + 1]
    /\ UNCHANGED <<data, index, index_file, kv, thread_vars, readers, writer, wal_lock, scan,
                   outside_fine>>

\* the wal_lock block is left
wal_release(t) ==
    /\ pc[t] = "wal_held"
    /\ loop[t] = Len(arg[t].key)
    /\ wal_lock' = NoThread
    /\ pc' = [pc EXCEPT ![t] = "write_wait"]
    /\ UNCHANGED <<store_vars, kv, arg, ret, budget, ckpt_pc, readers, writer, loop, scan,
                   outside_fine>>

\* with WriteLock(self.rwlock), entered
write_acquire(t) ==
    /\ pc[t] = "write_wait"
    /\ ~write_must_wait
    /\ writer' = TRUE
    /\ loop' = [loop EXCEPT ![t] = 0]
    /\ pc' = [pc EXCEPT ![t] = "write_held"]
    /\ UNCHANGED <<store_vars, kv, arg, ret, budget, ckpt_pc, readers, wal_lock, scan,
                   outside_fine>>

\* one append and index.put inside the WriteLock block (the only one of put,
\* one turn of batch_put's loop), or delete's re-check and index.delete
write_turn(t) ==
    /\ pc[t] = "write_held"
    /\ loop[t] < Len(arg[t].key)
    /\ IF arg[t].op = "delete"
       THEN LET s == delete_apply(index, arg[t].key[1])
            IN  /\ index' = s.index
                /\ ret' = [ret EXCEPT ![t] = s.ret]
                /\ UNCHANGED data
       ELSE LET s == put_apply(index, data, arg[t].key[loop[t] + 1], arg[t].value[loop[t] + 1])
            IN  /\ index' = s.index
                /\ data' = s.data
                /\ UNCHANGED ret
    /\ loop' = [loop EXCEPT ![t] = @ + 1]
    /\ UNCHANGED <<wal, index_file, kv, pc, arg, budget, ckpt_pc, present0, readers, writer,
                   wal_lock, scan>>
    /\ UNCHANGED <<replayed, last_act, last_ret, exp_ret, lpc, ahead, compact_vars, observed,
                   wal_tail_vars, dir_vars, repl_vars, follow_vars, datafile_vars>>

\* the WriteLock block is left and the call returns
write_release(t) ==
    /\ pc[t] = "write_held"
    /\ loop[t] = Len(arg[t].key)
    /\ writer' = FALSE
    /\ pc' = [pc EXCEPT ![t] = "idle"]
    /\ ret' = [ret EXCEPT ![t] = IF arg[t].op = "delete" THEN @ ELSE "True"]
    /\ kv' = IF arg[t].op = "delete"
             THEN [k \in DOMAIN kv \ {arg[t].key[1]} |-> kv[k]]
             ELSE kv_batch(kv, arg[t].key, arg[t].value)
    /\ UNCHANGED <<store_vars, arg, budget, ckpt_pc, readers, hold_vars, datafile_vars, outside_fine>>

\* _checkpoint_loop: with WriteLock(self.rwlock), entered
save_acquire ==
    /\ ckpt_pc = "wait"
    /\ ~write_must_wait
    /\ writer' = TRUE
    /\ ckpt_pc' = "save"
    /\ UNCHANGED <<store_vars, kv, pc, arg, ret, budget, readers, hold_vars, datafile_vars, outside_fine>>

\* _checkpoint_loop: self.index.save(), and the WriteLock block is left
save_release ==
    /\ ckpt_pc = "save"
    /\ index_file' = index
    /\ writer' = FALSE
    /\ ckpt_pc' = "truncate_wait"
    /\ UNCHANGED <<wal, data, index, kv, pc, arg, ret, budget, readers, hold_vars, datafile_vars, outside_fine>>

\* _checkpoint_loop: with self.wal_lock, entered
truncate_acquire ==
    /\ ckpt_pc = "truncate_wait"
    /\ wal_lock = NoThread
    /\ wal_lock' = Checkpointer
    /\ ckpt_pc' = "truncate"
    /\ UNCHANGED <<store_vars, kv, pc, arg, ret, budget, readers, writer, loop, scan,
                   outside_fine>>

\* _checkpoint_loop: self.wal.truncate(), and the wal_lock block is left
truncate_release ==
    /\ ckpt_pc = "truncate"
    /\ wal' = truncate(wal)
    /\ wal_lock' = NoThread
    /\ ckpt_pc' = "wait"
    /\ UNCHANGED <<data, index, index_file, kv, pc, arg, ret, budget, readers, writer, loop,
                   scan, outside_fine>>

\* the reader calls read_key_range(start_key, end_key)
scan_call(start_key, end_key) ==
    /\ scan.pc = "idle"
    /\ scan' = [NoScan EXCEPT !.pc = "read_wait", !.start_key = start_key,
                              !.end_key = end_key]
    /\ UNCHANGED <<store_vars, kv, thread_vars, readers, writer, wal_lock, loop, outside_fine>>

\* read_key_range: with ReadLock(self.rwlock), entered
scan_acquire ==
    /\ scan.pc = "read_wait"
    /\ ~read_must_wait
    /\ readers' = readers + 1
    /\ scan' = [scan EXCEPT !.pc = "get_range"]
    /\ UNCHANGED <<store_vars, kv, thread_vars, writer, wal_lock, loop, outside_fine>>

\* read_key_range: locations = self.index.get_range(start_key, end_key)
scan_get_range ==
    /\ scan.pc = "get_range"
    /\ LET locations == get_range(index, scan.start_key, scan.end_key)
       IN  scan' = [scan EXCEPT !.pc = "reading", !.locations = locations,
                                !.todo = key_order(DOMAIN locations)]
    /\ UNCHANGED <<store_vars, kv, thread_vars, readers, writer, wal_lock, loop, outside_fine>>

\* read_key_range: one turn of the loop over locations
scan_turn ==
    /\ scan.pc = "reading"
    /\ scan.todo # <<>>
    /\ LET key == Head(scan.todo)
           rec == datafile_read(data, scan.locations[key][1])
       IN  scan' = [scan EXCEPT !.todo = Tail(scan.todo),
                                !.result = IF rec.key = key
                                           THEN kv_put(scan.result, key, rec.value)
                                           ELSE scan.result]
    /\ UNCHANGED <<store_vars, kv, thread_vars, readers, writer, wal_lock, loop, outside_fine>>

\* read_key_range: return result, and the ReadLock block is left
scan_release ==
    /\ scan.pc = "reading"
    /\ scan.todo = <<>>
    /\ readers' = readers - 1
    /\ scan' = [scan EXCEPT !.pc = "idle"]
    /\ UNCHANGED <<store_vars, kv, thread_vars, writer, wal_lock, loop, outside_fine>>

FineNext ==
    \/ \E t \in Threads, key \in Keys, value \in Values :
           fine_call(t, "put", <<key>>, <<value>>)
    \/ \E t \in Threads, keys \in [1..MaxBatch -> Keys], values \in [1..MaxBatch -> Values] :
           fine_call(t, "batch_put", keys, values)
    \/ \E t \in Threads, key \in Keys : fine_call(t, "delete", <<key>>, <<>>)
    \/ \E t \in Threads : check_acquire(t) \/ check_release(t)
    \/ \E t \in Threads : wal_acquire(t) \/ wal_log_turn(t) \/ wal_release(t)
    \/ \E t \in Threads : write_acquire(t) \/ write_turn(t) \/ write_release(t)
    \/ save_acquire \/ save_release \/ truncate_acquire \/ truncate_release
    \/ \E end_key \in Keys : scan_call(<<>>, end_key)
    \/ scan_acquire \/ scan_get_range \/ scan_turn \/ scan_release

FineSpec == FineInit /\ [][FineNext]_vars

----------------------------------------------------------------------------
(* Claims about one client's calls *)

\* a <= b in byte-lexicographic order: a is a prefix of b, or at the first
\* position where they differ a has the smaller byte
LexLE(a, b) ==
    \/ Len(a) <= Len(b) /\ \A i \in 1..Len(a) : a[i] = b[i]
    \/ \E i \in 1..Len(a) :
           /\ i <= Len(b)
           /\ a[i] < b[i]
           /\ \A j \in 1..(i - 1) : a[j] = b[j]

\* C1: driven by one client, the store is a plain map: after every sequence of
\* put, batch_put and delete, read(k) is the value last bound to k by a put or
\* batch_put that no delete of k follows, and None otherwise; put returns true,
\* delete returns true exactly when k was bound.
C1_MapRefinement ==
    /\ \A k \in Keys : read(k) = kv_get(k)
    /\ last_ret = exp_ret

C1_Witness ==
    /\ last_act = "delete"
    /\ last_ret = "True"
    /\ <<>> \in DOMAIN kv
    /\ read(<<>>) = <<>>

\* C2: read_key_range(a, b) is exactly the live keys K with a <= K <= b in
\* byte-lexicographic order, each with its current value.
C2_RangeExact ==
    \A a \in RangeEnds, b \in RangeEnds :
        read_key_range(a, b) =
            [k \in {x \in DOMAIN kv : LexLE(a, x) /\ LexLE(x, b)} |-> kv[k]]

C2_Witness ==
    /\ DOMAIN read_key_range(<<1>>, <<2>>) = {<<1, 0>>}
    /\ <<>> \in DOMAIN kv
    /\ last_act = "put"

\* C3: once every call of a single client's sequence of put/batch_put/delete
\* has returned (no other thread has made a call), killing the process and reopening the directory (load the
\* index snapshot, replay the WAL in order) gives for every key K the read(K)
\* the store gave just before the kill.
C3_CrashRecoveryIdentity ==
    (/\ \A t \in DOMAIN pc : pc[t] = "idle"
     /\ \A t \in DOMAIN pc : t # 1 => arg[t].key = None) =>
        LET o == open(wal, data, index_file)
        IN  \A k \in Keys : read_in(o.index, o.data, k) = read(k)

\* C5: in every state the calls left behind, close() (which saves the index)
\* followed by a new open of the directory gives for every key K the read(K)
\* the store gave before the close.
C5_CloseReopenIdentity ==
    LET o == open(wal, data, index)
    IN  \A k \in Keys : read_in(o.index, o.data, k) = read(k)

C5_Witness ==
    /\ last_act = "close_open"
    /\ replayed >= 1
    /\ \E k \in DOMAIN kv : read(k) = kv[k]
    /\ DOMAIN kv # Keys

\* C10: in every state reached by puts, overwrites and deletes, _compact with
\* no concurrent mutation leaves read(K) and read_key_range as they were, for
\* every key and every range.
C10_CompactionIdentity ==
    LET c == compact_all(index, data)
    IN  /\ \A k \in Keys : read_in(c.index, c.data, k) = read(k)
        /\ \A a \in RangeEnds, b \in RangeEnds :
               read_key_range_in(c.index, c.data, a, b) = read_key_range(a, b)

C10_Witness ==
    /\ last_act = "compact"
    /\ Len(data) = 1
    /\ Len(wal) >= 2
    /\ wal[1].op = "put" /\ wal[2].op = "put"
    /\ wal[1].key = wal[2].key
    /\ wal[1].value # wal[2].value

\* C16: outside compaction the data file only grows: every step other than a
\* compaction (put, batch_put, delete, checkpoint, close, recovery replay)
\* leaves the records already in the file as they are, and a delete leaves
\* the whole file as it is.
C16_AppendOnly ==
    [][last_act' # "compact" =>
          /\ Len(data') >= Len(data)
          /\ SubSeq(data', 1, Len(data)) = data
          /\ (last_act' = "delete" => data' = data)]_vars

C16_Witness ==
    /\ last_act = "kill_open"
    /\ replayed >= 1
    /\ Len(data) >= 2
    /\ Len(data) > Cardinality(DOMAIN index)

\* C17: a batch_put whose keys and values differ in length raises ValueError
\* and leaves the WAL, the data file, the index, the saved index and the
\* replication queue as they were.
C17_MismatchWritesNothing ==
    [][last_act' = "batch_put" /\ last_ret' = "ValueError" =>
          UNCHANGED <<wal, data, index, index_file, queue>>]_vars

C17_Witness ==
    /\ last_act = "batch_put"
    /\ last_ret = "ValueError"
    /\ wal # <<>>
    /\ data # <<>>

----------------------------------------------------------------------------
(* Claims about concurrent threads and about the lock *)

\* C4: whenever the checkpointer truncates the WAL, the effect of every WAL
\* entry it discards is already in the index snapshot it has just written:
\* replaying the WAL over that snapshot changes no key's value.
C4_CheckpointOrdering ==
    ckpt_pc = "truncate" =>
        LET o == recover_entries(replay(wal), index_load(index_file), data)
        IN  \A k \in Keys :
                read_in(o.index, o.data, k) = read_in(index_load(index_file), data, k)

\* C6: when threads call delete(k) in parallel on a present key k and no put
\* runs, exactly one call returns true, the others return false, none raises,
\* and k is absent afterwards.
C6_ExactlyOneTrue ==
    \A k \in Keys :
        LET callers == {t \in Deleters : arg[t].key = k}
            won == {t \in callers : ret[t] = "True"}
        IN  /\ Cardinality(won) <= 1
            /\ (\A t \in Deleters : budget[t] = 0 /\ pc[t] = "idle") =>
                   /\ \A t \in callers : ret[t] \in {"True", "False"}
                   /\ (k \in present0 /\ callers # {}) =>
                          Cardinality(won) = 1 /\ index_get(index, k) = None
                   /\ k \notin present0 => won = {}

C6_Witness ==
    /\ \A t \in Deleters : budget[t] = 0 /\ pc[t] = "idle"
    /\ \E k \in present0 : \A t \in Deleters : arg[t].key = k
    /\ Len(wal) = NumDeleters

\* C7: at most one thread holds the lock exclusively, no thread holds it
\* shared while one holds it exclusively (never _writer with _readers > 0),
\* and _readers, the number of shared holders, is never negative.
C7_MutualExclusion ==
    LET writing == {t \in LockThreads : lpc[t] = "writing"}
        reading == {t \in LockThreads : lpc[t] = "reading"}
    IN  /\ Cardinality(writing) <= 1
        /\ writing # {} => reading = {}
        /\ ~(writer /\ readers > 0)
        /\ readers >= 0
        /\ readers = Cardinality(reading)
        /\ writer = (writing # {})

C7_Witness ==
    /\ readers >= 2
    /\ \E t \in LockThreads : lpc[t] = "wait_write"

\* C8: once a thread is waiting in acquire_write, no reader that called
\* acquire_read afterwards holds the shared lock before that writer has
\* acquired and released the exclusive lock.
C8_WriterFairness ==
    \A t \in LockThreads : lpc[t] = "reading" => ahead[t] = {}

\* C9: a thread that requests the exclusive lock eventually acquires it,
\* whatever the readers do, under fair scheduling.
C9_WriterEventuallyAcquires ==
    \A t \in LockThreads :
        (lpc[t] \in {"wait_write", "woken_write"}) ~> (lpc[t] = "writing")

\* what the rule gives for a data file of total_size > 0 bytes
should_compact_rule(total_size, live_size, min_file_size, tenths) ==
    IF total_size < min_file_size THEN "False"
    ELSE IF dead_ratio_reached(total_size, live_size, tenths) THEN "True"
    ELSE "False"

\* C38: on a data file that is not empty the check returns false when the
\* file is smaller than min_file_size, and otherwise returns true exactly
\* when 1 - live_bytes/size is at least the threshold, live_bytes being the
\* sum of the lengths of the index entries, 0 for an empty index.
C38_ShouldCompactRule ==
    [][\A min_file_size \in MinFileSizes, tenths \in ThresholdTenths :
           (should_compact_check(min_file_size, tenths) /\ file_size(data) > 0) =>
               last_ret' = should_compact_rule(file_size(data), index_bytes(index),
                                               min_file_size, tenths)]_vars

\* C38 for a store that holds at least one key: the check returns false
\* when the file is smaller than min_file_size, and otherwise returns true
\* exactly when 1 - live_bytes/size is at least the threshold.
C38_ShouldCompactRuleWithKeys ==
    [][\A min_file_size \in MinFileSizes, tenths \in ThresholdTenths :
           (should_compact_check(min_file_size, tenths) /\ DOMAIN index # {}) =>
               last_ret' = should_compact_rule(file_size(data), index_bytes(index),
                                               min_file_size, tenths)]_vars

C38_Witness ==
    /\ last_act = "_should_compact"
    /\ last_ret = "True"
    /\ DOMAIN index # {}
    /\ file_size(data) >= 16
    /\ 10 * (file_size(data) - index_bytes(index)) < 5 * file_size(data)

\* C40: DataFile.size is the length of the data file, also after a put
\* whose append raised, and every read returns the value of the last put of
\* its key that returned true.
C40_SizeIsFileLength ==
    /\ size = file_size(data)
    /\ observed.value = observed.expected

\* C11: the index installed by the compaction swap contains no key that is
\* missing from the live index when the swap takes the exclusive lock: a key
\* deleted between the snapshot and the swap stays absent.
C11_DeletedStaysAbsent ==
    [][compact_swap => DOMAIN index' \subseteq DOMAIN index]_vars

\* C12: every key of the live index keeps, across the compaction swap, the
\* value last written for it, also when it was put (new, or overwriting a
\* snapshotted key) between the snapshot and the swap.
C12_WritesSurviveCompaction ==
    [][compact_swap => \A k \in DOMAIN index : read(k)' = read(k)]_vars

C12_Witness ==
    /\ pre_swap.swapped
    /\ \E k \in pre_swap.keys :
           /\ read(k) = <<7>>
           /\ pre_swap.reads[k] = <<7>>
           /\ Len(data) >= 2
           /\ data[1] = [key |-> k, value |-> <<>>]

\* C14: in every state a reader can observe, every key K of the index with
\* entry (o, l) has at offset o of the data file a record with key K that
\* occupies exactly [o, o+l), and o + l is at most the size of the file.
C14_IndexDataAgreement ==
    \A K \in DOMAIN index :
        LET o == index[K][1]
            l == index[K][2]
            rec == datafile_read(data, o)
        IN  /\ rec.key = K
            /\ l = record_len(rec.key, rec.value)
            /\ o + l <= file_size(data)

C14_Witness ==
    /\ pre_swap.swapped
    /\ Cardinality(DOMAIN index) = 2
    /\ \E K \in DOMAIN index : index[K][1] > 0
    /\ \E t \in Threads : pc[t] = "put_phase2"

\* C19: immediately after a compaction swap the size of the data file is the
\* sum of the lengths of the entries of the installed index: the file holds
\* one record per live key and nothing else.
C19_OnlyLiveRecords ==
    [][compact_swap => file_size(data') = index_bytes(index')]_vars

\* C15: a read(k) that begins after a put or delete of k has released the
\* exclusive lock returns the value that mutation, or a later one, gave k:
\* the value of the last mutation of k to have released the lock.
C15_ReadVisibility ==
    observed.value = observed.expected

\* C27: the entries of concurrent mutations of one key are in the WAL in the
\* order in which their index updates are applied: once all the mutations
\* have returned, replaying the WAL after a crash gives every key the value
\* the running store held.
C27_WalOrderIsApplyOrder ==
    (\A t \in DOMAIN pc : pc[t] = "idle") =>
        LET o == open(wal, data, index_file)
        IN  \A k \in Keys : read_in(o.index, o.data, k) = read_in(index, data, k)

\* C30: a delete that returns False has changed nothing: the step in which
\* a thread's delete returns False is its first check, and the WAL, the data
\* file, the index, its snapshot and the replication queue are as they were
\* when the call started.
C30_FalseDeleteChangesNothing ==
    [][\A t \in DOMAIN pc :
          (pc'[t] = "idle" /\ ret'[t] = "False"
              /\ (pc[t] # "idle" \/ budget'[t] # budget[t]))
          => (pc[t] = "idle" /\ UNCHANGED <<wal, data, index, index_file, queue>>)]_vars

----------------------------------------------------------------------------
(* Claims about the directory lock *)

\* C13: at any time at most one live process has the data directory open,
\* for every interleaving of the steps of the processes' opens.
C13_DirectoryLockExclusive ==
    Cardinality({p \in DOMAIN ppc : ppc[p] = "open"}) <= 1

\* C35: while a store instance opened by the process is open, .lock exists
\* and names the process; and the close of one instance does not remove
\* .lock while another instance of the process is open.
C35_LockfileOutlivesAnInstance ==
    /\ []((\E p \in Instances : ppc[p] = "open") => lockfile = 1)
    /\ [][\A p \in Instances :
             (release_unlink(p) /\ \E q \in Instances \ {p} : ppc[q] = "open") =>
                 lockfile' # NoPid]_vars

----------------------------------------------------------------------------
(* Claims about the WAL file *)

\* C18: replay of a WAL whose tail entry is incomplete does not fail and
\* returns exactly the complete entries before it, in write order; replay of
\* an empty WAL returns the empty sequence.
C18_ReplayToleratesTornTail ==
    [][wal_replay => /\ ~replay_out'.raised
                     /\ replay_out'.entries = replay(wal)]_vars

----------------------------------------------------------------------------
(* Claims about the replication queue *)

\* what one step of the Replicator owes the callers of _enqueue_operation:
\* the step that puts is always possible, appends and returns true when the
\* queue holds fewer than queue_size operations, else discards; the step
\* that discards adds one to dropped_operations and returns false; the
\* queue never holds more than queue_size operations
enqueue_contract ==
    /\ \A t \in DOMAIN enq :
           /\ enq[t].pc = "put" => ENABLED enqueue_put(t)
           /\ enq[t].pc = "drop" => ENABLED enqueue_drop(t)
           /\ enqueue_put(t) /\ Len(queue) < queue_size =>
                  /\ queue' = Append(queue, NewOp)
                  /\ enq'[t] = [pc |-> "idle", ret |-> "True"]
           /\ enqueue_put(t) /\ Len(queue) >= queue_size =>
                  /\ queue' = queue
                  /\ enq'[t].pc = "drop"
           /\ enqueue_drop(t) =>
                  /\ dropped_operations' = dropped_operations + 1
                  /\ enq'[t].ret = "False"
                  /\ queue' = queue
    /\ Len(queue') <= queue_size

held_ops == {queue[i] : i \in 1..Len(queue)} \cup {in_flight[w] : w \in Workers}

\* a round either leaves the queue alone or puts its operation back with a
\* retry_count one higher
round_counts_retry ==
    \A w \in Workers, outcome \in Outcomes :
        worker_replicate(w, outcome) =>
            \/ queue' = queue
            \/ queue' = Append(queue, [op |-> in_flight[w].op,
                                        retry_count |-> in_flight[w].retry_count + 1])

\* C37: an operation's retry_count never exceeds max_retries, every round
\* that puts an operation back raises its retry_count by one, so that an
\* operation goes through at most 1 + max_retries rounds, and with the
\* workers running the queue is empty from some point on, whatever the
\* rounds' outcomes are.
C37_RetriesBounded ==
    /\ [](\A op \in held_ops : op.retry_count <= MaxRetries)
    /\ [][round_counts_retry]_vars
    /\ <>[](queue = <<>> /\ \A w \in Workers : in_flight[w] = NoOp)

C37_Witness ==
    /\ total_operations = MaxOps
    /\ \A t \in DOMAIN enq : enq[t].pc = "idle"
    /\ queue # <<>>
    /\ \A i \in 1..Len(queue) : queue[i].retry_count = MaxRetries
    /\ \E w \in Workers : in_flight[w] # NoOp /\ in_flight[w].retry_count = MaxRetries

\* C39: a cycle of a background thread that raises leaves the thread in
\* its loop, ready for its next cycle: the checkpoint thread when the index
\* save or the WAL truncation fails, the compaction thread, a replication
\* worker.
C39_BackgroundThreadsSurvive ==
    [][/\ (checkpoint_loop_save("raises") \/ checkpoint_loop_truncate("raises"))
           => ckpt_pc' = "wait"
       /\ compaction_loop_cycle(0, 3, "raises") => cpc' = "idle"
       /\ \A w \in Workers : worker_raises(w) => in_flight'[w] = NoOp]_vars

\* C21: in async mode, whenever a worker's dispatch round ends with no
\* success, whether every attempted follower failed or no follower was
\* healthy, and the operation's retry_count is below max_retries and the
\* queue is not full, the operation is put back on the queue with its
\* retry_count one higher.
C21_RetryRule ==
    [][mode = "async" =>
         \A w \in Workers :
             /\ (/\ worker_take(w)
                 /\ get_healthy_replicas(nodes) = <<>>
                 /\ Head(queue).retry_count < MaxRetries
                 /\ ~queue_full(Tail(queue), queue_size))
                => queue' = Append(Tail(queue),
                                   [Head(queue) EXCEPT !.retry_count = @ + 1])
             /\ (/\ replicate_end(w)
                 /\ round[w].success_count = 0
                 /\ in_flight[w].retry_count < MaxRetries
                 /\ ~queue_full(queue, queue_size))
                => queue' = Append(queue,
                                   [in_flight[w] EXCEPT !.retry_count = @ + 1])]_vars

\* the positions of a put, batch_put or delete that is in its phase 3
Phase3 == {"put_phase3", "delete_phase3", "batch_put_phase3", "phase3_sync"}

\* C23: a failure of replication is never surfaced to the client: from the
\* moment a put, batch_put or delete on a primary enters phase 3, whatever
\* the queue, the workers and the followers do, the WAL, the data file, the
\* index and its snapshot stay as phase 2 left them, and the call returns
\* True, in async mode and in sync mode.
C23_ReplicationNeverSurfaced ==
    [][\A t \in DOMAIN pc :
          pc[t] \in Phase3 =>
              /\ UNCHANGED <<wal, data, index, index_file>>
              /\ pc'[t] \in Phase3 \cup {"idle"}
              /\ pc'[t] = "idle" => ret'[t] = "True"]_vars

\* both calls have returned True although an operation was dropped from a
\* full queue, or although a follower of a sync-mode primary has failed
C23_Witness ==
    /\ replicates
    /\ \A t \in DOMAIN pc : pc[t] = "idle" /\ ret[t] = "True" /\ budget[t] = 0
    /\ \/ mode = "async" /\ dropped_operations >= 1
       \/ mode = "sync" /\ \E f \in DOMAIN nodes : ~nodes[f].is_healthy

\* the positions from which a call hands its operation to _enqueue_operation
Enqueueing == {"put_phase3", "delete_phase3", "batch_put_phase3"}

\* the index holds what the call of thread t wrote
index_updated(t) ==
    IF pc[t] = "put_phase3" THEN read_in(index, data, arg[t].key) = arg[t].value
    ELSE IF pc[t] = "delete_phase3" THEN index_get(index, arg[t].key) = None
    ELSE \A i \in 1..Len(arg[t].key) : index_get(index, arg[t].key[i]) # None

\* C29: within one thread a mutation takes its steps in the order WAL
\* append, data-file append and index update, replication enqueue, each
\* finished before the next starts: the WAL step changes nothing else, the
\* data and index step finds the entry in the WAL and enqueues nothing, and
\* the enqueue finds the index updated and changes nothing in the store.  An
\* operation is enqueued only on a primary with a replicator, once for each
\* mutation that returns True, and by no delete that returns False.
C29_StepOrder ==
    [][/\ \A t \in DOMAIN pc :
            /\ (pc[t] = "idle" /\ pc'[t] = "put_phase2") =>
                   /\ wal' = log(wal, "put", arg'[t].key, arg'[t].value)
                   /\ UNCHANGED <<data, index, queue, total_operations>>
            /\ (pc[t] = "delete_phase1" /\ pc'[t] # pc[t]) =>
                   /\ wal' = log(wal, "delete", arg[t].key, None)
                   /\ UNCHANGED <<data, index, queue, total_operations>>
            /\ (pc[t] = "put_phase2" /\ pc'[t] # pc[t]) =>
                   /\ wal # <<>> /\ wal[Len(wal)] = [op |-> "put", key |-> arg[t].key,
                                                     value |-> arg[t].value]
                   /\ Len(data') = Len(data) + 1
                   /\ read_in(index', data', arg[t].key) = arg[t].value
                   /\ UNCHANGED <<wal, queue, total_operations>>
                   /\ pc'[t] = IF replicates THEN "put_phase3" ELSE "idle"
            /\ (pc[t] = "delete_phase2" /\ pc'[t] # pc[t]) =>
                   /\ wal # <<>> /\ wal[Len(wal)].op = "delete"
                   /\ UNCHANGED <<wal, data, queue, total_operations>>
                   /\ pc'[t] = IF replicates /\ index' # index
                               THEN "delete_phase3" ELSE "idle"
                   /\ pc'[t] = "idle" => ret'[t] = (IF index' # index THEN "True" ELSE "False")
            /\ (pc[t] \in Enqueueing /\ pc'[t] # pc[t]) =>
                   /\ replicates
                   /\ index_updated(t)
                   /\ total_operations' = total_operations + 1
                   /\ UNCHANGED <<wal, data, index>>
            /\ (ret'[t] = "True" /\ ret[t] # "True" /\ replicates) => pc[t] \in Phase3
       /\ total_operations' # total_operations =>
              \E t \in DOMAIN pc : pc[t] \in Enqueueing /\ pc'[t] \notin Enqueueing
       /\ queue' # queue /\ Len(queue') > Len(queue) =>
              \/ \E t \in DOMAIN pc : pc[t] \in Enqueueing /\ pc'[t] = "idle"
              \/ \E d \in DOMAIN round : round[d].pc = "end" /\ round'[d].pc = "idle"]_vars

\* a put and a delete have each returned True and been enqueued once
C29_Witness ==
    /\ replicates
    /\ total_operations = 2
    /\ \A t \in DOMAIN pc : pc[t] = "idle" /\ ret[t] = "True" /\ budget[t] = 0
    /\ Len(wal) = 2 /\ wal[1].op = "put" /\ wal[2].op = "delete"

\* what the primary's store maps each key to
primary_state == [k \in DOMAIN index |-> read_in(index, data, k)]

\* every call has returned, the queue is empty and no dispatcher is in a round
drained ==
    /\ \A t \in DOMAIN pc : pc[t] = "idle"
    /\ queue = <<>>
    /\ \A d \in DOMAIN round : round[d].pc = "idle"

\* C25: after the primary has executed its calls back to back and the queue
\* has drained, with every follower reachable and healthy and no operation
\* dropped, every follower maps each key to what the primary maps it to,
\* for every interleaving of the worker threads.
C25_FollowersConverge ==
    (/\ replicates
     /\ down = {}
     /\ \A f \in DOMAIN nodes : nodes[f].is_healthy
     /\ dropped_operations = 0
     /\ drained)
    => \A f \in DOMAIN fkv : fkv[f] = primary_state

\* the client has made its last call and every follower is reachable, has
\* answered OK to everything it was sent, and nothing was dropped
delivery_due ==
    /\ replicates
    /\ down = {}
    /\ dropped_operations = 0
    /\ \A f \in DOMAIN nodes : nodes[f].is_healthy /\ nodes[f].consecutive_failures = 0
    /\ \A t \in DOMAIN pc : pc[t] = "idle" /\ budget[t] = 0

\* follower f reads every key the primary holds as the primary does, and
\* holds no key that a delete removed from the primary
delivered(f) ==
    \A k \in Keys :
        /\ k \in DOMAIN index =>
               k \in DOMAIN fkv[f] /\ fkv[f][k] = read_in(index, data, k)
        /\ (k \notin DOMAIN index /\ \E i \in 1..Len(wal) : wal[i] = [op |-> "delete",
                                                                      key |-> k,
                                                                      value |-> None])
               => k \notin DOMAIN fkv[f]

\* C24: with every follower reachable and answering OK and the queue never
\* full, under fair scheduling of the workers every mutation of the primary
\* reaches every follower: once the primary has made its last call, each
\* follower eventually reads every key as the primary does, the value of
\* the last put or absent after a delete.
C24_EventualDelivery ==
    delivery_due ~> (\A f \in DOMAIN fkv : delivered(f))

\* a kill outside the swap would lose nothing: opening the directory as it
\* is gives every key the value the running store holds
recoverable ==
    LET o == open(wal, data, index_file)
    IN  /\ DOMAIN o.index = DOMAIN index
        /\ \A k \in DOMAIN index : read_in(o.index, o.data, k) = read_in(index, data, k)

\* C28: a kill inside the swap of a compaction, after data.db was renamed to
\* data.db.old or after the compacted file was renamed into place and
\* before the index was saved, loses nothing that a kill just before the
\* swap would have kept: after the reopen every key that was live reads as
\* it did, and every index entry has its record at its offset.
C28_CrashInSwapLosesNothing ==
    [][\A point \in CrashPoints :
          (crash_in_swap(point) /\ recoverable) =>
              /\ \A k \in DOMAIN index :
                     read_in(index', data', k) = read_in(index, data, k)
              /\ \A k \in DOMAIN index' : datafile_read(data', index'[k][1]).key = k]_vars

\* C32: a kill between the checkpoint thread's index save and its WAL
\* truncation, when every call has returned, is benign: the reopen replays
\* the WAL over the snapshot just written and every key reads as it did
\* before the kill.
C32_CrashBeforeTruncateIsBenign ==
    [][(/\ kill_restart
        /\ ckpt_pc = "truncate"
        /\ \A t \in DOMAIN pc : pc[t] = "idle") =>
           \A k \in Keys : read_in(index', data', k) = read(k)]_vars

----------------------------------------------------------------------------
(* Claims about the lock blocks of the store *)

\* the part of the plain map inside [start_key, end_key]
kv_range(start_key, end_key) ==
    [k \in {x \in DOMAIN kv : bytes_le(start_key, x) /\ bytes_le(x, end_key)} |-> kv[k]]

\* the last n entries of the WAL
wal_suffix(w, n) == SubSeq(w, Len(w) - n + 1, Len(w))

\* the entries a put or batch_put with these lists logs
burst(keys, values) == [i \in 1..Len(keys) |-> [op |-> "put", key |-> keys[i], value |-> values[i]]]

\* C31: batch_put is one unit.  When it leaves its wal_lock block the WAL ends
\* with its entries, one per pair in list order, with no entry of another
\* call between them; and a read_key_range that has read all its keys holds,
\* for every key of its range, the value the calls that have left their
\* WriteLock block give it: every pair of a batch or none.
C31_BatchIsOneUnit ==
    /\ []((scan.pc = "reading" /\ scan.todo = <<>>) =>
              scan.result = kv_range(scan.start_key, scan.end_key))
    /\ [][\A t \in Threads :
             (wal_release(t) /\ arg[t].op = "batch_put") =>
                 /\ Len(wal) >= Len(arg[t].key)
                 /\ wal_suffix(wal, Len(arg[t].key)) = burst(arg[t].key, arg[t].value)]_vars

\* read_key_range over both keys waits for the ReadLock while a batch_put of
\* two different keys has applied its first pair only
C31_Witness ==
    /\ scan.pc = "read_wait"
    /\ scan.end_key = <<1, 0>>
    /\ \E t \in Threads :
           /\ arg[t].op = "batch_put"
           /\ pc[t] = "write_held"
           /\ loop[t] = 1
           /\ arg[t].key[1] # arg[t].key[2]

\* C33: the store cannot deadlock on its own locks: under fair scheduling,
\* where every thread that holds the shared-exclusive lock releases it and
\* every woken thread runs, every request for the lock, shared or
\* exclusive, is granted.
C33_EveryLockRequestGranted ==
    \A t \in LockThreads :
        /\ (lpc[t] \in {"wait_read", "woken_read"}) ~> (lpc[t] = "reading")
        /\ (lpc[t] \in {"wait_write", "woken_write"}) ~> (lpc[t] = "writing")

\* C34: in sync mode every dispatch of an operation happens inside the
\* enqueue call: nothing is ever on the queue, and no worker thread is
\* dispatching an operation.
C34_SyncNeverQueues ==
    mode = "sync" =>
        /\ queue = <<>>
        /\ \A w \in Workers : round[w].pc = "idle" /\ in_flight[w] = NoDispatch

\* C36: once a follower is marked unhealthy, no dispatcher sends it an
\* operation and no step marks it healthy again.
C36_UnhealthyIsFinal ==
    [][\A f \in DOMAIN nodes :
          ~nodes[f].is_healthy =>
              /\ ~nodes'[f].is_healthy
              /\ \A d \in Dispatchers :
                     ~(replicate_to_replica(d) /\ Head(round[d].replicas) = f)]_vars

----------------------------------------------------------------------------
(* Claims about the followers' health *)

\* C22: for max_failures >= 1, after any sequence of mark_success and
\* mark_failure calls a follower's is_healthy is true exactly when its
\* consecutive_failures is below max_failures.
C22_HealthyIffBelowMax ==
    max_failures >= 1 =>
        \A f \in DOMAIN nodes :
            nodes[f].is_healthy <=> nodes[f].consecutive_failures < max_failures

C22_Witness ==
    /\ max_failures >= 2
    /\ \E f \in DOMAIN nodes :
           ~nodes[f].is_healthy /\ nodes[f].consecutive_failures > max_failures
    /\ \E f \in DOMAIN nodes :
           nodes[f].is_healthy /\ nodes[f].consecutive_failures = max_failures - 1

====
